---- MODULE Spec2Model ----
(***************************************************************************)
(* Incremental build-and-cache subsystem of lvgl-live-preview:             *)
(*   DependencyCache      (src/src/cache/dependencyCache.ts)               *)
(*   EmccWrapper          (src/unnamed/part_000)                           *)
(*   CompilationManager   (src/src/compiler/compilationManager.ts)         *)
(*   LibraryBuilder       (src/src/preview/htmlTemplate.ts, lines 386-626) *)
(*   VersionManager       (src/unnamed/part_002)                           *)
(*   ConfigLoader         (src/unnamed/part_004)                           *)
(* The file system the classes read and write is part of the state.        *)
(***************************************************************************)
EXTENDS Integers, Sequences, FiniteSets, TLC

(***************************************************************************)
(* Bounds of the model.                                                    *)
(***************************************************************************)
\* distinct contents a source file takes (content ids 1..MaxContent)
MaxContent == 2
\* distinct modification times a source file takes (1..MaxMtime)
MaxMtime == 2
\* longest dependency list handed to compileDependencies
MaxDeps == 2

Contents == 1..MaxContent
Mtimes == 1..MaxMtime

\* elements of a sequence
Range(s) == {s[i] : i \in 1..Len(s)}

(***************************************************************************)
(* Dependency source files of the project and the object files that        *)
(* compileToObjects writes for them into the cache directory.              *)
(***************************************************************************)
Sources == {"src/a.c", "src/b.c"}

\* the source files the user edits, touches or deletes while the model runs
EditedSources == {"src/a.c"}

\* path.basename(sourceFile, '.c')
baseName(sourceFile) ==
    CASE sourceFile = "src/a.c" -> "a"
      [] sourceFile = "src/b.c" -> "b"
      [] sourceFile = "src/core/lv_obj.c" -> "lv_obj"
      [] sourceFile = "src/widgets/lv_label.c" -> "lv_label"
      [] sourceFile = "src/drivers/sdl/lv_sdl_window.c" -> "lv_sdl_window"
      [] sourceFile = "src/hal/lv_hal_tick.c" -> "lv_hal_tick"
      [] sourceFile = "lib/a.c" -> "a"
      [] sourceFile = "src/c.c" -> "c"
      [] sourceFile = "src/d.c" -> "d"
      [] sourceFile = "src/e.c" -> "e"
      [] sourceFile = "src/f.c" -> "f"
      [] sourceFile = "src/g.c" -> "g"
      [] sourceFile = "src/h.c" -> "h"
      [] sourceFile = "src/i.c" -> "i"
      [] sourceFile = "src/j.c" -> "j"
      [] sourceFile = "src/k.c" -> "k"
      [] sourceFile = "src/l.c" -> "l"

\* path.join(outputDir, `${baseName}.o`), inside the output directory
objFile(sourceFile) ==
    CASE baseName(sourceFile) = "a" -> "a.o"
      [] baseName(sourceFile) = "b" -> "b.o"
      [] baseName(sourceFile) = "lv_obj" -> "lv_obj.o"
      [] baseName(sourceFile) = "lv_label" -> "lv_label.o"
      [] baseName(sourceFile) = "lv_sdl_window" -> "lv_sdl_window.o"
      [] baseName(sourceFile) = "lv_hal_tick" -> "lv_hal_tick.o"
      [] baseName(sourceFile) = "c" -> "c.o"
      [] baseName(sourceFile) = "d" -> "d.o"
      [] baseName(sourceFile) = "e" -> "e.o"
      [] baseName(sourceFile) = "f" -> "f.o"
      [] baseName(sourceFile) = "g" -> "g.o"
      [] baseName(sourceFile) = "h" -> "h.o"
      [] baseName(sourceFile) = "i" -> "i.o"
      [] baseName(sourceFile) = "j" -> "j.o"
      [] baseName(sourceFile) = "k" -> "k.o"
      [] baseName(sourceFile) = "l" -> "l.o"

ObjPaths == {objFile(s) : s \in Sources}

\* the persisted index inside the cache directory
metadataPath == "metadata.json"

(***************************************************************************)
(* CompilationSettings and the settings fingerprint.                       *)
(***************************************************************************)
IncludeDirs == {"inc/a", "inc/b"}

\* lexicographic rank of the strings that get sorted
strRank(str) ==
    CASE str = "inc/a" -> 1
      [] str = "inc/b" -> 2
      [] str = "DEBUG" -> 3
      [] str = "LV_CONF_INCLUDE_SIMPLE" -> 4
      [] OTHER -> 5

RECURSIVE insertSorted(_, _)
insertSorted(str, sorted) ==
    IF sorted = <<>> THEN <<str>>
    ELSE IF strRank(str) <= strRank(Head(sorted)) THEN <<str>> \o sorted
    ELSE <<Head(sorted)>> \o insertSorted(str, Tail(sorted))

\* the array left in the order given
sortStrings_Unsorted(array) == array

\* [...array].sort()
RECURSIVE sortStrings(_)
sortStrings(array) ==
    IF array = <<>> THEN <<>>
    ELSE insertSorted(Head(array), sortStrings(Tail(array)))

\* the settings bundles a DependencyCache is constructed with
SettingsSet ==
    { [lvglVersion |-> "9.2.0", optimization |-> o, lvglMemorySize |-> 256,
       wasmMemorySize |-> 128, includePaths |-> ip, defines |-> <<"DEBUG">>] :
        o \in {"-O1", "-O2"},
        ip \in {<<"inc/a", "inc/b">>, <<"inc/b", "inc/a">>} }

\* sha256 of the JSON text of the normalized bundle, first 16 hex digits:
\* equal exactly when the normalized bundles are equal
computeSettingsHash(settings) ==
    << "sha256/16", settings.lvglVersion, settings.optimization,
       settings.lvglMemorySize, settings.wasmMemorySize,
       sortStrings(settings.includePaths), sortStrings(settings.defines) >>

\* sha256 of the file content
computeFileHash(content) == <<"sha256", content>>

SettingsHashes == {computeSettingsHash(s) : s \in SettingsSet}

(***************************************************************************)
(* State.                                                                  *)
(***************************************************************************)
VARIABLES
    srcFile,              \* source path -> [exists, content, mtime] on disk
    objOnDisk,            \* object files existing in the cache directory
    metadata,             \* metadata.json: [state, entries], entries being the JSON array
    cache,                \* DependencyCache.cache: source path -> CachedDependency
    currentSettingsHash,  \* DependencyCache.currentSettingsHash
    recordedUnder,        \* history: fingerprint active at the last updateCache(S, _), per S
    last                  \* history: the last operation, its arguments and its outcome

cacheVars == <<srcFile, objOnDisk, metadata, cache, currentSettingsHash,
               recordedUnder, last>>

NoFile == [exists |-> FALSE, content |-> 0, mtime |-> 0]

\* the Map with no entry
EmptyMap == [x \in {} |-> 0]

\* a set that leaves an existing entry as it is
MapSet_KeepOld(map, key, value) ==
    [x \in (DOMAIN map) \cup {key} |-> IF x \in DOMAIN map THEN map[x] ELSE value]

\* Map.set(key, value)
MapSet(map, key, value) ==
    [x \in (DOMAIN map) \cup {key} |-> IF x = key THEN value ELSE map[x]]

\* history record of an operation. clean: a build compiled everything it had
\* to, and nothing changed since; repeat: the build follows a clean build of
\* the same dependency list; validBefore: the dependencies valid when the
\* build began; invoked: the files handed to emcc; succeeded: those emcc compiled;
\* updated: the updateCache calls made; replaced: updateCache found an entry
\* for the source
NoOp == [op |-> "none", src |-> "", obj |-> "", threw |-> FALSE, replaced |-> FALSE,
         deps |-> <<>>, validBefore |-> {}, invoked |-> <<>>, succeeded |-> {},
         updated |-> <<>>, result |-> <<>>, clean |-> FALSE, repeat |-> FALSE]

(***************************************************************************)
(* DependencyCache                                                         *)
(***************************************************************************)
\* metadata.json. state "absent": there is no such file; "ok": it holds the
\* JSON array entries; "unreadable": readFileSync or JSON.parse throws;
\* "badEntry": it holds a JSON array that goes on, after entries, with an
\* element that is null
NoMetadata == [state |-> "absent", entries |-> <<>>]

\* Array.from(map.values()). The Map lists its values in insertion order; the
\* model keeps one order for each set of keys
values(map) ==
    LET keys == DOMAIN map
        order == CHOOSE s \in [1..Cardinality(keys) -> keys] :
                     \A i, j \in 1..Cardinality(keys) : s[i] = s[j] => i = j
    IN  [i \in 1..Cardinality(keys) |-> map[order[i]]]

\* for (const entry of entries) this.cache.set(entry.sourcePath, entry)
RECURSIVE setEntries(_, _)
setEntries(map, entries) ==
    IF entries = <<>> THEN map
    ELSE setEntries(MapSet(map, entries[1].sourcePath, entries[1]), Tail(entries))

\* a load that does not read the index
loadMetadata_Nothing(meta) == EmptyMap

\* a load that keeps the entries set before the loop threw
loadMetadata_KeepLoaded(meta) ==
    IF meta.state \in {"ok", "badEntry"} THEN setEntries(EmptyMap, meta.entries) ELSE EmptyMap

\* loadMetadata: the entries of the index are set one by one; when the file
\* is missing the Map stays empty; when reading, parsing or the loop throws,
\* the catch block empties the Map
loadMetadata(meta) ==
    IF meta.state = "ok" THEN setEntries(EmptyMap, meta.entries) ELSE EmptyMap

\* a save that writes an index without the entries
saveMetadata_Empty(map) == [state |-> "ok", entries |-> <<>>]

\* saveMetadata: the values of the whole Map are written as one JSON array.
\* The write is taken to succeed; the code logs a write that fails and goes on
saveMetadata(map) == [state |-> "ok", entries |-> values(map)]

\* isCacheValid that takes a missing fingerprint for a changed one
isCacheValidIn_Strict(map, settingsHash, objs, files, sourcePath) ==
    /\ sourcePath \in DOMAIN map
    /\ LET cached == map[sourcePath] IN
        /\ cached.settingsHash = settingsHash
        /\ cached.objectPath \in objs
        /\ files[sourcePath].exists
        /\ files[sourcePath].mtime = cached.lastModified
        /\ computeFileHash(files[sourcePath].content) = cached.sourceHash

\* isCacheValid without the modification-time check
isCacheValidIn_NoMtime(map, settingsHash, objs, files, sourcePath) ==
    /\ sourcePath \in DOMAIN map
    /\ LET cached == map[sourcePath] IN
        /\ ~(cached.settingsHash # <<>> /\ cached.settingsHash # settingsHash)
        /\ cached.objectPath \in objs
        /\ files[sourcePath].exists
        /\ computeFileHash(files[sourcePath].content) = cached.sourceHash

\* isCacheValid, evaluated on a given Map, fingerprint and file system
isCacheValidIn(map, settingsHash, objs, files, sourcePath) ==
    /\ sourcePath \in DOMAIN map
    /\ LET cached == map[sourcePath] IN
        /\ ~(cached.settingsHash # <<>> /\ cached.settingsHash # settingsHash)
        /\ cached.objectPath \in objs
        /\ files[sourcePath].exists
        /\ files[sourcePath].mtime = cached.lastModified
        /\ computeFileHash(files[sourcePath].content) = cached.sourceHash

isCacheValid(sourcePath) ==
    isCacheValidIn(cache, currentSettingsHash, objOnDisk, srcFile, sourcePath)

\* an entry stored without the settings fingerprint
newEntry_NoSettingsHash(files, settingsHash, sourcePath, objectPath) ==
    [sourcePath |-> sourcePath,
     objectPath |-> objectPath,
     sourceHash |-> computeFileHash(files[sourcePath].content),
     lastModified |-> files[sourcePath].mtime,
     settingsHash |-> <<>>]

\* the entry updateCache builds
newEntry(files, settingsHash, sourcePath, objectPath) ==
    [sourcePath |-> sourcePath,
     objectPath |-> objectPath,
     sourceHash |-> computeFileHash(files[sourcePath].content),
     lastModified |-> files[sourcePath].mtime,
     settingsHash |-> settingsHash]

\* new DependencyCache(context, projectId, outputChannel, settings)
NewDependencyCache(settings) ==
    /\ currentSettingsHash' = computeSettingsHash(settings)
    /\ cache' = loadMetadata(metadata)
    /\ last' = IF last.clean /\ currentSettingsHash' = currentSettingsHash
               THEN [last EXCEPT !.op = "new"]
               ELSE [NoOp EXCEPT !.op = "new"]
    /\ UNCHANGED <<srcFile, objOnDisk, metadata, recordedUnder>>

\* updateCache(sourcePath, objectPath); statSync throws when the source is gone
UpdateCache(sourcePath, objectPath) ==
    IF ~srcFile[sourcePath].exists
    THEN /\ last' = [NoOp EXCEPT !.op = "updateCache", !.src = sourcePath,
                                 !.obj = objectPath, !.threw = TRUE]
         /\ UNCHANGED <<srcFile, objOnDisk, metadata, cache, currentSettingsHash,
                        recordedUnder>>
    ELSE /\ cache' = MapSet(cache, sourcePath,
                        newEntry(srcFile, currentSettingsHash, sourcePath, objectPath))
         /\ metadata' = saveMetadata(cache')
         /\ recordedUnder' = MapSet(recordedUnder, sourcePath, currentSettingsHash)
         /\ last' = [NoOp EXCEPT !.op = "updateCache", !.src = sourcePath,
                                 !.obj = objectPath,
                                 !.replaced = sourcePath \in DOMAIN cache]
         /\ UNCHANGED <<srcFile, objOnDisk, currentSettingsHash>>

\* a removal whose failure goes on to the caller
tryRemove_Uncaught(fails) == [threw |-> fails, removed |-> ~fails]

\* try { fs.rmSync(filePath) } catch { log }
tryRemove(fails) == [threw |-> FALSE, removed |-> ~fails]

\* clear(): the Map is emptied; every file of the cache directory is removed,
\* except those whose rmSync fails (kept). The directory is taken to be listable
Clear(kept) ==
    /\ kept \subseteq objOnDisk \cup (IF metadata.state = "absent" THEN {} ELSE {metadataPath})
    /\ cache' = EmptyMap
    /\ objOnDisk' = {o \in objOnDisk : ~tryRemove(o \in kept).removed}
    /\ metadata' = IF tryRemove(metadataPath \in kept).removed THEN NoMetadata ELSE metadata
    /\ last' = [NoOp EXCEPT !.op = "clear", !.threw = \E f \in kept : tryRemove(TRUE).threw]
    /\ UNCHANGED <<srcFile, currentSettingsHash, recordedUnder>>

(***************************************************************************)
(* The environment: the user edits, touches or deletes source files, and   *)
(* object files get deleted.                                               *)
(***************************************************************************)
WriteSource(sourcePath, content, mtime) ==
    /\ srcFile[sourcePath] # [exists |-> TRUE, content |-> content, mtime |-> mtime]
    /\ srcFile' = [srcFile EXCEPT ![sourcePath] =
                        [exists |-> TRUE, content |-> content, mtime |-> mtime]]
    /\ last' = [NoOp EXCEPT !.op = "writeSource", !.src = sourcePath]
    /\ UNCHANGED <<objOnDisk, metadata, cache, currentSettingsHash, recordedUnder>>

DeleteSource(sourcePath) ==
    /\ srcFile[sourcePath].exists
    /\ srcFile' = [srcFile EXCEPT ![sourcePath] = NoFile]
    /\ last' = [NoOp EXCEPT !.op = "deleteSource", !.src = sourcePath]
    /\ UNCHANGED <<objOnDisk, metadata, cache, currentSettingsHash, recordedUnder>>

\* metadata.json is damaged from outside: it becomes unreadable, or its
\* array gets an element that is null after its entries
CorruptMetadata(kind) ==
    /\ metadata.state = "ok"
    /\ metadata' = [state |-> kind,
                    entries |-> IF kind = "badEntry" THEN metadata.entries ELSE <<>>]
    /\ last' = [NoOp EXCEPT !.op = "corruptMetadata"]
    /\ UNCHANGED <<srcFile, objOnDisk, cache, currentSettingsHash, recordedUnder>>

DeleteObject(objectPath) ==
    /\ objectPath \in objOnDisk
    /\ objOnDisk' = objOnDisk \ {objectPath}
    /\ last' = [NoOp EXCEPT !.op = "deleteObject", !.obj = objectPath]
    /\ UNCHANGED <<srcFile, metadata, cache, currentSettingsHash, recordedUnder>>

(***************************************************************************)
(* EmccWrapper.compileToObjects: every source file is handed to emcc; ok   *)
(* is the set of files whose emcc run succeeds. A failed run yields null,  *)
(* and the nulls are filtered out of the returned list.                    *)
(***************************************************************************)
compileToObjects(sourceFiles, ok) ==
    LET successful == SelectSeq(sourceFiles, LAMBDA f : f \in ok)
    IN  [i \in 1..Len(successful) |-> objFile(successful[i])]

\* the object files the successful emcc runs write
objectsWritten(sourceFiles, ok) == {objFile(f) : f \in Range(sourceFiles) \cap ok}

(***************************************************************************)
(* CompilationManager.compileDependencies                                  *)
(***************************************************************************)
\* "Separate cached and uncached dependencies"
cachedObjects(dependencies) ==
    LET hits == SelectSeq(dependencies, LAMBDA d : isCacheValid(d))
    IN  [i \in 1..Len(hits) |-> cache[hits[i]].objectPath]

\* every dependency recompiled, cached or not
filesToCompile_All(dependencies) == dependencies

filesToCompile(dependencies) == SelectSeq(dependencies, LAMBDA d : ~isCacheValid(d))

\* "Update cache for newly compiled files": the loop over filesToCompile,
\* from index i on; acc carries the Map, the result list and the history.
\* compiled[i] is undefined past the end of compiled.
RECURSIVE updateLoop(_, _, _, _, _)
updateLoop(i, toCompile, compiled, objs, acc) ==
    IF i > Len(toCompile) \/ acc.threw THEN acc
    ELSE IF i <= Len(compiled) /\ compiled[i] \in objs
    THEN IF ~srcFile[toCompile[i]].exists
         THEN [acc EXCEPT !.threw = TRUE]
         ELSE updateLoop(i + 1, toCompile, compiled, objs,
                [acc EXCEPT
                   !.cache = MapSet(acc.cache, toCompile[i],
                        newEntry(srcFile, currentSettingsHash, toCompile[i], compiled[i])),
                   !.recordedUnder = MapSet(acc.recordedUnder, toCompile[i],
                        currentSettingsHash),
                   !.updated = Append(acc.updated, <<toCompile[i], compiled[i]>>),
                   !.objectFiles = Append(acc.objectFiles, compiled[i])])
    ELSE updateLoop(i + 1, toCompile, compiled, objs, acc)

CompileDependencies(dependencies, ok) ==
    \E toCompile \in {filesToCompile(dependencies)} :
      /\ ok \subseteq {f \in Range(toCompile) : srcFile[f].exists}
      /\ \E objs \in {objOnDisk \cup objectsWritten(toCompile, ok)} :
         \E done \in {updateLoop(1, toCompile, compileToObjects(toCompile, ok), objs,
                        [cache |-> cache, recordedUnder |-> recordedUnder,
                         updated |-> <<>>,
                         objectFiles |-> cachedObjects(dependencies),
                         threw |-> FALSE])} :
           /\ objOnDisk' = objs
           /\ cache' = done.cache
           /\ recordedUnder' = done.recordedUnder
           /\ metadata' = IF done.updated = <<>> THEN metadata
                          ELSE saveMetadata(done.cache)
           /\ last' = [op |-> "compileDependencies", src |-> "", obj |-> "",
                       deps |-> dependencies,
                       validBefore |-> {d \in Range(dependencies) : isCacheValid(d)},
                       repeat |-> last.clean /\ last.deps = dependencies,
                       invoked |-> toCompile,
                       succeeded |-> ok,
                       updated |-> done.updated,
                       result |-> IF done.threw THEN <<>> ELSE done.objectFiles,
                       threw |-> done.threw,
                       clean |-> ~done.threw /\ Range(toCompile) \subseteq ok]
           /\ UNCHANGED <<srcFile, currentSettingsHash>>

\* the dependency lists of a resolved project configuration: each file once
DepLists ==
    {deps \in UNION {[1..n -> Sources] : n \in 1..MaxDeps} :
        \A i, j \in 1..Len(deps) : deps[i] = deps[j] => i = j}

(***************************************************************************)
(* The lvglPreview settings (VS Code configuration) read by buildLibrary   *)
(* and compileUserFile.                                                    *)
(***************************************************************************)
\* settings changes the user makes while the model runs
MaxSettingChanges == 1

\* the values each setting takes
SettingValues ==
    [lvglVersion      |-> {"9.2.0", "8.3.0"},
     emccOptimization |-> {"-O2", "-O1"},
     displayWidth     |-> {480, 800},
     displayHeight    |-> {320, 480},
     lvglMemorySize   |-> {256, 512},
     wasmMemorySize   |-> {128, 32}]

\* the defaults of config.get
DefaultSettings ==
    [lvglVersion      |-> "9.2.0",
     emccOptimization |-> "-O2",
     displayWidth     |-> 480,
     displayHeight    |-> 320,
     lvglMemorySize   |-> 256,
     wasmMemorySize   |-> 128]

SettingNames == DOMAIN DefaultSettings

(***************************************************************************)
(* VersionManager: the LVGL source tree of a version.                      *)
(***************************************************************************)
\* parseInt(version.split('.')[0], 10)
majorVersion(version) == IF version = "8.3.0" THEN 8 ELSE 9

\* the .c files of the downloaded tree, in the order walkDir meets them
lvglTree(version) ==
    IF majorVersion(version) >= 9
    THEN <<"src/core/lv_obj.c", "src/drivers/sdl/lv_sdl_window.c", "src/widgets/lv_label.c">>
    ELSE <<"src/core/lv_obj.c", "src/hal/lv_hal_tick.c", "src/widgets/lv_label.c">>

\* a walk that leaves no file out
getSourceFiles_NoExclusion(version) == lvglTree(version)

\* getSourceFiles: the SDL driver files (v9+) and lv_hal_tick.c (v8) are left out
getSourceFiles(version) ==
    SelectSeq(lvglTree(version), LAMBDA filePath :
        /\ ~(majorVersion(version) >= 9 /\ filePath = "src/drivers/sdl/lv_sdl_window.c")
        /\ ~(majorVersion(version) < 9 /\ filePath = "src/hal/lv_hal_tick.c"))

\* getLvglSdlDriverSourceFiles(version): the SDL drivers inside the LVGL tree
getLvglSdlDriverSourceFiles(version) ==
    <<"src/drivers/sdl/lv_sdl_window.c", "src/drivers/sdl/lv_sdl_mouse.c",
      "src/drivers/sdl/lv_sdl_mousewheel.c", "src/drivers/sdl/lv_sdl_keyboard.c">>

\* getLvDriversSdlSourceFiles(): the SDL drivers of lv_drivers, outside the
\* LVGL tree
getLvDriversSdlSourceFiles ==
    <<"lv_drivers/master/sdl/sdl.c", "lv_drivers/master/sdl/sdl_common.c">>

\* the additional source files compileUserFile hands to the link stage
additionalSourceFiles(version) ==
    IF majorVersion(version) >= 9 THEN getLvglSdlDriverSourceFiles(version)
    ELSE getLvDriversSdlSourceFiles

LibSources == UNION {Range(getSourceFiles(v)) : v \in SettingValues.lvglVersion}
LibObjects == {objFile(f) : f \in LibSources}

(***************************************************************************)
(* LibraryBuilder: cache key, object directory, completion marker.         *)
(***************************************************************************)
needsLvDrivers(version) == majorVersion(version) < 9
driversSuffix(version) == IF needsLvDrivers(version) THEN "_with_lvdrivers" ELSE ""
buildVersion == "v3"

\* a key that leaves the display width out
cacheKey_NoWidth(version, config) ==
    <<version, config.emccOptimization, config.displayHeight,
      config.lvglMemorySize, driversSuffix(version), buildVersion>>

\* `${version}_${optimization}_${displayWidth}x${displayHeight}_mem${lvglMemorySize}${driversSuffix}_${buildVersion}`
cacheKey(version, config) ==
    <<version, config.emccOptimization, config.displayWidth, config.displayHeight,
      config.lvglMemorySize, driversSuffix(version), buildVersion>>

\* '.build_complete' inside the object directory of a key
markerFile == ".build_complete"

\* the entries of the object directory of a key; none when there is no directory
dirEntries(dirs, key) == IF key \in DOMAIN dirs THEN dirs[key] ELSE {}

\* getObjectFiles with every directory entry taken for an object file
getObjectFiles_AllEntries(entries) == entries

\* getObjectFiles: the entries that are files named *.o
getObjectFiles(entries) == {name \in entries : name \in LibObjects}

\* the orders in which readdirSync may list a set of entries
Orderings(S) ==
    {s \in [1..Cardinality(S) -> S] : \A i, j \in 1..Cardinality(S) : s[i] = s[j] => i = j}

\* a build that is never failed for want of objects
buildFails_Never(objectFiles) == FALSE

\* "if (objectFiles.length === 0) throw"
buildFails(objectFiles) == Len(objectFiles) = 0

\* Error objects, and String(error)
NoError == [name |-> "", message |-> ""]
Error(message) == [name |-> "Error", message |-> message]
TypeError(message) == [name |-> "TypeError", message |-> message]
String(error) == <<error.name, ": ", error.message>>

VARIABLES
    settings,        \* the lvglPreview settings
    settingChanges,  \* history: number of settings changes made
    downloaded,      \* LVGL versions present in global storage
    lvDrivers,       \* lv_drivers is present in global storage
    lvConf,          \* version -> key whose lv_conf.h lies in the version's tree
    objDirs,         \* key -> entries of the object directory obj_<key>
    lastLib,         \* history: the last buildLibrary call and its outcome
    lastResult,      \* history: the last compileUserFile call and its outcome
    lastLink         \* history: the last compileWithObjects or parseCompilerOutput call

libVars == <<settings, settingChanges, downloaded, lvDrivers, lvConf, objDirs,
             lastLib, lastResult, lastLink>>

VARIABLES
    lastHash,        \* history: the last pair of computeSettingsHash calls
    webviewManager,  \* PreviewManager.webviewManager
    managers,        \* the WebviewManagers made: the panel field of each
    panels,          \* the webview panels created
    fileWatcher,     \* PreviewManager.fileWatcher
    watchers,        \* the FileWatchers made
    currentFile,     \* PreviewManager.currentFile
    calls,           \* the calls of startPreview and compileAndUpdate made
    stopped,         \* history: stopPreview returned and startPreview was not called since
    lastEvent,       \* history: the last step of the session
    burst,           \* history: change events and callbacks of a FileWatcher on its own
    batch,           \* the call of EmccWrapper.compileToObjects in progress
    request          \* the call of CompilationManager.compileUserFile in progress

previewVars == <<webviewManager, managers, panels, fileWatcher, watchers, currentFile,
                 calls, stopped, lastEvent, burst>>

sessionVars == <<lastHash, previewVars, batch, request>>

vars == <<cacheVars, libVars, sessionVars>>

\* the files of global storage that the library build reads and writes
disk == [downloaded |-> downloaded, lvDrivers |-> lvDrivers,
         lvConf |-> lvConf, objDirs |-> objDirs]

NoKey == <<>>

\* how a call completes: it returns a value or lets an error escape
Return(value) == [kind |-> "return", value |-> value]
Throw(error) == [kind |-> "throw", value |-> error]

\* JavaScript's null and undefined
null == [null |-> TRUE]
undefined == [undefined |-> TRUE]

\* history record of a compileUserFile call: the project the call found on
\* disk, what loadConfig returned (loaded), the state of that object when the
\* call returned (projectConfig), the stage the call ended in, the error a
\* stage threw, and how the call completed
NoResult == [op |-> "none", file |-> "", project |-> <<>>, loaded |-> null,
             projectConfig |-> null, stage |-> "", thrown |-> NoError,
             completion |-> Return(<<>>)]

\* history record of a buildLibrary call. hit: the marker was found; stage:
\* where the call ended; invoked: the sources handed to emcc; succeeded: those
\* emcc compiled; leftover: the object files that were in the directory and
\* that the call did not write; fresh: the key had no object directory;
\* repeat: the call follows, with no settings change in between, a call that
\* returned, prev being that call's hit, result and leftover; afterZero: the
\* call follows one for the same key in which no source compiled; changed,
\* prevKey: the one setting that differs from the preceding call, and that
\* call's key; afterClear: the call is the first after a clearCache. A
\* settings change keeps the settings and the key of the preceding call
NoPrev == [hit |-> FALSE, result |-> <<>>, leftover |-> {}]

NoLib == [op |-> "none", settings |-> DefaultSettings, key |-> NoKey, hit |-> FALSE,
          threw |-> FALSE, stage |-> "", invoked |-> <<>>, succeeded |-> {},
          result |-> <<>>, leftover |-> {}, fresh |-> FALSE, repeat |-> FALSE,
          prev |-> NoPrev, afterZero |-> FALSE, changed |-> {}, prevKey |-> NoKey,
          afterClear |-> FALSE]

\* VersionManager.ensureVersion on disk d; ok: the download, when one is needed, succeeds
ensureVersion(d, version, ok) ==
    IF version \in d.downloaded THEN [threw |-> FALSE, error |-> NoError, disk |-> d]
    ELSE IF ok THEN [threw |-> FALSE, error |-> NoError,
                     disk |-> [d EXCEPT !.downloaded = @ \cup {version}]]
    ELSE [threw |-> TRUE, error |-> Error("Failed to download"), disk |-> d]

\* VersionManager.ensureLvDrivers
ensureLvDrivers(d, ok) ==
    IF d.lvDrivers THEN [threw |-> FALSE, error |-> NoError, disk |-> d]
    ELSE IF ok THEN [threw |-> FALSE, error |-> NoError, disk |-> [d EXCEPT !.lvDrivers = TRUE]]
    ELSE [threw |-> TRUE, error |-> Error("Failed to download"), disk |-> d]

\* outcome of a buildLibrary call that throws
libThrows(error, d, stage, invoked, succeeded) ==
    [threw |-> TRUE, error |-> error, result |-> <<>>, disk |-> d, hit |-> FALSE,
     stage |-> stage, invoked |-> invoked, succeeded |-> succeeded]

\* LibraryBuilder.buildLibrary(version) under config on disk d. in.download,
\* in.conf, in.drivers: the download of the version, the writing of lv_conf.h
\* and the download of lv_drivers succeed; in.ok: the sources emcc compiles;
\* in.listing: the object files in the order readdirSync lists them
buildLibrary(d, version, config, in) ==
    LET key == cacheKey(version, config)
        entries == dirEntries(d.objDirs, key)
        ev == ensureVersion(d, version, in.download)
        d2 == [ev.disk EXCEPT !.lvConf[version] = key]
        dr == IF needsLvDrivers(version) THEN ensureLvDrivers(d2, in.drivers)
              ELSE [threw |-> FALSE, error |-> NoError, disk |-> d2]
        sourceFiles == getSourceFiles(version)
        objectFiles == compileToObjects(sourceFiles, in.ok)
        d3 == [dr.disk EXCEPT !.objDirs =
                  MapSet(@, key, entries \cup objectsWritten(sourceFiles, in.ok))]
    IN  IF markerFile \in entries
        THEN [threw |-> FALSE, error |-> NoError, result |-> in.listing, disk |-> d,
              hit |-> TRUE, stage |-> "cached", invoked |-> <<>>, succeeded |-> {}]
        ELSE IF ev.threw THEN libThrows(ev.error, ev.disk, "ensureVersion", <<>>, {})
        ELSE IF ~in.conf
             THEN libThrows(Error("lv_conf.h not written"), ev.disk, "generateLvConf", <<>>, {})
        ELSE IF dr.threw THEN libThrows(dr.error, dr.disk, "ensureLvDrivers", <<>>, {})
        ELSE IF buildFails(objectFiles)
             THEN libThrows(Error("Failed to compile LVGL object files"), d3,
                            "compile", sourceFiles, in.ok)
        ELSE [threw |-> FALSE, error |-> NoError, result |-> objectFiles,
              disk |-> [d3 EXCEPT !.objDirs[key] = @ \cup {markerFile}],
              hit |-> FALSE, stage |-> "built", invoked |-> sourceFiles,
              succeeded |-> in.ok]

\* the inputs of a buildLibrary call on the current disk; an input that the
\* call does not come to use has one value: TRUE, every source, the first listing
LibInputs ==
    LET version == settings.lvglVersion
        entries == dirEntries(objDirs, cacheKey(version, settings))
        hit == markerFile \in entries
        listings == Orderings(getObjectFiles(entries))
    IN  {in \in [download : BOOLEAN, conf : BOOLEAN, drivers : BOOLEAN,
                 ok : SUBSET Range(getSourceFiles(version)),
                 listing : listings] :
            /\ (hit \/ version \in downloaded) => in.download
            /\ (hit \/ ~in.download) => in.conf
            /\ (hit \/ ~in.download \/ ~in.conf \/ lvDrivers \/ ~needsLvDrivers(version))
                  => in.drivers
            /\ (hit \/ ~in.download \/ ~in.conf \/ ~in.drivers)
                  => in.ok = Range(getSourceFiles(version))
            /\ ~hit => in.listing = CHOOSE s \in listings : TRUE}

\* the disk after a call
writeDisk(d) ==
    /\ downloaded' = d.downloaded
    /\ lvDrivers' = d.lvDrivers
    /\ lvConf' = d.lvConf
    /\ objDirs' = d.objDirs

\* the settings in which two configurations differ
changedSettings(old, new) == {n \in SettingNames : old[n] # new[n]}

\* buildLibrary(lvglVersion), called with the version the settings name
BuildLibrary(in) ==
    \E key \in {cacheKey(settings.lvglVersion, settings)} :
    \E out \in {buildLibrary(disk, settings.lvglVersion, settings, in)} :
    \E after \in {lastLib.op = "buildLibrary"} :
    \E changed \in {IF lastLib.op \in {"buildLibrary", "changeSetting"}
                     THEN changedSettings(lastLib.settings, settings) ELSE {}} :
        /\ writeDisk(out.disk)
        /\ lastLib' =
              [op |-> "buildLibrary", settings |-> settings, key |-> key,
               hit |-> out.hit, threw |-> out.threw, stage |-> out.stage,
               invoked |-> out.invoked, succeeded |-> out.succeeded,
               result |-> out.result,
               leftover |-> IF out.hit THEN {}
                            ELSE getObjectFiles(dirEntries(objDirs, key))
                                     \ objectsWritten(out.invoked, out.succeeded),
               fresh |-> key \notin DOMAIN objDirs,
               repeat |-> after /\ ~lastLib.threw,
               prev |-> IF after /\ ~lastLib.threw
                        THEN [hit |-> lastLib.hit, result |-> lastLib.result,
                              leftover |-> lastLib.leftover]
                        ELSE NoPrev,
               afterZero |-> /\ after /\ lastLib.key = key
                             /\ lastLib.invoked # <<>> /\ lastLib.succeeded = {},
               changed |-> IF Cardinality(changed) = 1 THEN changed ELSE {},
               prevKey |-> IF Cardinality(changed) = 1 THEN lastLib.key ELSE NoKey,
               afterClear |-> lastLib.op = "clearCache"]
        /\ UNCHANGED <<settings, settingChanges, lastResult, lastLink>>

\* LibraryBuilder.clearCache, which CompilationManager.clearCache runs: every
\* object directory is removed recursively; kept[key] is what a removal
\* that fails leaves of the directory
ClearCache(kept) ==
    /\ \A key \in DOMAIN objDirs : kept[key] \subseteq objDirs[key]
    /\ objDirs' = [key \in {k \in DOMAIN objDirs : kept[k] # {}} |-> kept[key]]
    /\ lastLib' = [NoLib EXCEPT !.op = "clearCache"]
    /\ lastResult' = [NoResult EXCEPT !.op = "clearCache"]
    /\ UNCHANGED <<settings, settingChanges, downloaded, lvDrivers, lvConf, lastLink>>

\* the user changes one setting
ChangeSetting(name, value) ==
    /\ settingChanges < MaxSettingChanges
    /\ value # settings[name]
    /\ settings' = [settings EXCEPT ![name] = value]
    /\ settingChanges' = settingChanges + 1
    /\ lastLib' = IF lastLib.op \in {"buildLibrary", "changeSetting"}
                   THEN [NoLib EXCEPT !.op = "changeSetting",
                                      !.settings = lastLib.settings, !.key = lastLib.key]
                   ELSE lastLib
    /\ UNCHANGED <<downloaded, lvDrivers, lvConf, objDirs, lastResult, lastLink>>

(***************************************************************************)
(* EmccWrapper: parseCompilerOutput and the link stage compileWithObjects. *)
(* Compiler output is a sequence of characters. "x" and "m" stand for a    *)
(* character of a name or of a message, "error", "warning" and "note" for  *)
(* the letters of these words, "\n" and "\r" for line feed and carriage    *)
(* return.                                                                 *)
(***************************************************************************)
\* lines of the outputs that are longer than one line
MaxLines == 2

Digits == {"0", "1", "2", "3", "5"}
digitValue(c) == CASE c = "0" -> 0 [] c = "1" -> 1 [] c = "2" -> 2 [] c = "3" -> 3 [] c = "5" -> 5

\* the character classes of the regular expression: \d, \s, and the dot,
\* which matches every character but the line terminators
isDigit(c) == c \in Digits
Spaces == {" ", "\r", "\n"}
isSpace(c) == c \in Spaces
isDot(c) == c \notin {"\n", "\r"}

\* the end of the longest run of characters of a class that starts at i (i - 1: no such character)
runEnd(s, i, class) ==
    CHOOSE j \in (i - 1)..Len(s) :
        /\ \A k \in i..j : s[k] \in class
        /\ j = Len(s) \/ s[j + 1] \notin class

\* a split that takes the whole output as one line
split_Whole(output) == <<output>>

\* output.split('\n')
RECURSIVE split(_)
split(output) ==
    IF \A i \in 1..Len(output) : output[i] # "\n"
    THEN <<output>>
    ELSE LET i == CHOOSE i \in 1..Len(output) :
                      output[i] = "\n" /\ \A k \in 1..(i - 1) : output[k] # "\n"
         IN  <<SubSeq(output, 1, i - 1)>> \o split(SubSeq(output, i + 1, Len(output)))

\* parseInt(digits, 10)
RECURSIVE parseInt(_)
parseInt(digits) ==
    IF digits = <<>> THEN 0
    ELSE 10 * parseInt(SubSeq(digits, 1, Len(digits) - 1)) + digitValue(digits[Len(digits)])

\* String.prototype.trim
trim(s) ==
    LET first == runEnd(s, 1, Spaces) + 1
        last_ == CHOOSE j \in 0..Len(s) :
                     /\ j = 0 \/ ~isSpace(s[j])
                     /\ \A k \in (j + 1)..Len(s) : isSpace(s[k])
    IN  SubSeq(s, first, last_)

\* the match of :(\d+):(\d+):\s*(error|warning):\s*(.+)$ from position k + 1
\* of the line on, the first group having taken the characters 1..k. \d+ and
\* \s* take the longest run; the last \s* gives characters back until (.+)
\* reaches the end of the line
matchFrom(line, k) ==
    LET n == Len(line)
        lineEnd == runEnd(line, k + 2, Digits)
        colEnd == runEnd(line, lineEnd + 2, Digits)
        sev == runEnd(line, colEnd + 2, Spaces) + 1
        rest == SubSeq(line, sev + 2, n)
        gaps == {j \in 0..(Len(rest) - 1) :
                    /\ \A i \in 1..j : isSpace(rest[i])
                    /\ \A i \in (j + 1)..Len(rest) : isDot(rest[i])}
        gap == CHOOSE j \in gaps : \A i \in gaps : i <= j
        matched ==
            /\ k + 1 <= n /\ line[k + 1] = ":"
            /\ lineEnd >= k + 2
            /\ lineEnd + 1 <= n /\ line[lineEnd + 1] = ":"
            /\ colEnd >= lineEnd + 2
            /\ colEnd + 1 <= n /\ line[colEnd + 1] = ":"
            /\ sev <= n /\ line[sev] \in {"error", "warning"}
            /\ sev + 1 <= n /\ line[sev + 1] = ":"
            /\ gaps # {}
    IN  IF matched
        THEN [matched |-> TRUE,
              groups |-> <<SubSeq(line, 1, k), SubSeq(line, k + 2, lineEnd),
                           SubSeq(line, lineEnd + 2, colEnd), line[sev],
                           SubSeq(rest, gap + 1, Len(rest))>>]
        ELSE [matched |-> FALSE, groups |-> <<>>]

\* line.match(/^(.+?):(\d+):(\d+):\s*(error|warning):\s*(.+)$/): the lazy
\* first group takes the fewest characters with which the rest matches
match(line) ==
    LET ks == {k \in 1..Len(line) :
                  /\ \A i \in 1..k : isDot(line[i])
                  /\ matchFrom(line, k).matched}
    IN  IF ks = {} THEN [matched |-> FALSE, groups |-> <<>>]
        ELSE matchFrom(line, CHOOSE k \in ks : \A i \in ks : k <= i)

\* the loop of parseCompilerOutput over the lines
RECURSIVE parseLines(_)
parseLines(lines) ==
    IF lines = <<>> THEN <<>>
    ELSE LET m == match(lines[1])
         IN  (IF m.matched
              THEN <<[file |-> m.groups[1], line |-> parseInt(m.groups[2]),
                      column |-> parseInt(m.groups[3]), severity |-> m.groups[4],
                      message |-> trim(m.groups[5])]>>
              ELSE <<>>) \o parseLines(Tail(lines))

parseCompilerOutput(output) == parseLines(split(output))

\* the lines of compiler output the model draws from. A line is put together
\* from a file name (one with a colon in it among them), a line number, a
\* column (or none), a severity word and a message, and may end in a
\* carriage return, as a line of CRLF-terminated output does after split('\n')
LinePool ==
    {file \o <<":">> \o lineNo \o col \o <<":">> \o gap \o word \o <<":">> \o message \o cr :
        file \in {<<"x">>, <<"x", ":", "x">>},
        lineNo \in {<<"3">>, <<"1", "2">>, <<"x">>},
        col \in {<<":", "5">>, <<":", "0">>, <<>>},
        gap \in {<<" ">>, <<>>},
        word \in {<<"error">>, <<"warning">>, <<"note">>, <<"x", " ", "error">>},
        message \in {<<" ", "m">>, <<" ", "m", " ", "m", " ">>, <<"m">>, <<>>, <<" ">>,
                     <<" ", "x", ":", "1", ":", "2", ":", " ", "error", ":", " ", "m">>},
        cr \in {<<>>, <<"\r">>}}

\* the lines of the outputs of several lines: an error, a warning, a linker
\* message without a position, an error line of CRLF-terminated output
ShortPool ==
    {<<"x", ":", "3", ":", "5", ":", " ", "error", ":", " ", "m">>,
     <<"x", ":", "1", ":", "2", ":", " ", "warning", ":", " ", "m">>,
     <<"x", ":", " ", "error", ":", " ", "m">>,
     <<"x", ":", "3", ":", "5", ":", " ", "error", ":", " ", "m", "\r">>}

\* lines.join('\n')
RECURSIVE joinLines(_)
joinLines(lines) ==
    IF lines = <<>> THEN <<>>
    ELSE IF Len(lines) = 1 THEN lines[1]
    ELSE lines[1] \o <<"\n">> \o joinLines(Tail(lines))

\* what emcc writes to a stream: up to MaxLines lines
Streams == {joinLines(lines) : lines \in UNION {[1..n -> ShortPool] : n \in 0..MaxLines}}

\* the outputs parseCompilerOutput is applied to
Outputs == LinePool \cup Streams

\* a run of emcc by compileWithObjects. responseFile: objects.txt is written;
\* exit: emcc exits with 0, exits with another code, or is killed at the
\* timeout; stdout, stderr: what it has written
NoRun == [responseFile |-> TRUE, exit |-> "0", stdout |-> <<>>, stderr |-> <<>>]

LinkRuns ==
    {[NoRun EXCEPT !.responseFile = FALSE]}
    \cup [responseFile : {TRUE}, exit : {"0", "nonzero", "timeout"},
          stdout : Streams, stderr : Streams]

\* err.message of the error execFile rejects with: the command, then stderr
errorMessage(run) == <<"m", "\n">> \o run.stderr

\* x || y || z on strings: the first that is not empty
firstNonEmpty(x, y, z) == IF x # <<>> THEN x ELSE IF y # <<>> THEN y ELSE z

\* err.stderr || err.stdout || err.message || ''
errorOutput(run) == firstNonEmpty(run.stderr, run.stdout, errorMessage(run))

\* EmccWrapper.compileWithObjects with emcc running as run says
compileWithObjects(sourceFile, run) ==
    IF ~run.responseFile THEN Throw(Error("response file not written"))
    ELSE IF run.exit = "0"
    THEN LET errors == parseCompilerOutput(run.stderr)
             warnings == SelectSeq(errors, LAMBDA e : e.severity = "warning")
             actualErrors == SelectSeq(errors, LAMBDA e : e.severity = "error")
         IN  Return([success |-> Len(actualErrors) = 0, errors |-> actualErrors,
                     warnings |-> warnings])
    ELSE Return([success |-> FALSE, errors |-> parseCompilerOutput(errorOutput(run)),
                 warnings |-> <<>>])

\* a call of the link stage or of the parser: its arguments, whether it has
\* returned, and how it completed
NoLink == [op |-> "none", output |-> <<>>, run |-> NoRun, returned |-> FALSE,
           completion |-> Return(<<>>)]

(***************************************************************************)
(* CompilationManager.compileUserFile                                      *)
(***************************************************************************)
\* the file the preview is started on
UserFiles == {"ui/screen.c"}

\* a minimum that rounds the LVGL heap down to whole megabytes
minWasmMemory_Floor(lvglMemorySize) == 32 + (lvglMemorySize \div 1024)

\* Math.ceil(lvglMemorySize / 1024 + 32)
minWasmMemory(lvglMemorySize) == 32 + ((lvglMemorySize + 1023) \div 1024)

\* the result returned when the memory settings are rejected
memoryErrorResult(config) ==
    [success |-> FALSE,
     errors |-> <<[file |-> "", line |-> 0, column |-> 0,
                   message |-> <<"Memory configuration error: ", config.wasmMemorySize,
                                 config.lvglMemorySize, minWasmMemory(config.lvglMemorySize)>>,
                   severity |-> "error"]>>,
     warnings |-> <<>>]

\* the runs of emcc in the link stage of a build request: it exits with 0
\* and writes nothing or a warning, it fails with an error in the user's file
\* or with a linker message, or objects.txt cannot be written
MgrLinkRuns ==
    {NoRun,
     [NoRun EXCEPT !.stderr = <<"x", ":", "1", ":", "2", ":", " ", "warning", ":", " ", "m">>],
     [NoRun EXCEPT !.exit = "nonzero",
                   !.stderr = <<"x", ":", "3", ":", "5", ":", " ", "error", ":", " ", "m">>],
     [NoRun EXCEPT !.exit = "nonzero", !.stderr = <<"x", ":", " ", "error", ":", " ", "m">>],
     [NoRun EXCEPT !.responseFile = FALSE]}

\* how compileWithObjects completes in a build request: what it returns or
\* throws on the runs of emcc above
linkStage == {compileWithObjects(sourceFile, run) : sourceFile \in UserFiles, run \in MgrLinkRuns}

\* the link stage succeeds without a diagnostic
linkClean == Return([success |-> TRUE, errors |-> <<>>, warnings |-> <<>>])

(***************************************************************************)
(* ConfigLoader: .lvgl-live-preview.json and the paths it names.           *)
(***************************************************************************)
\* the directory of the configuration file
configDir == "/proj"

\* path.isAbsolute(p)
isAbsolute(p) == p \in {"/opt/inc"}

\* path.isAbsolute(p) ? p : path.resolve(configDir, p): a relative path is
\* put under the directory. A resolved path is the sequence of its parts
resolve(dir, p) == IF isAbsolute(p) THEN <<p>> ELSE <<dir, p>>

\* the content of a configuration file that parses and validates
ProjectFile ==
    [mainFile |-> "ui/screen.c", dependencies |-> <<"src/a.c", "src/b.c">>,
     includePaths |-> <<"inc/a", "/opt/inc">>, defines |-> <<"DEBUG">>]

\* what a build request finds on disk: no configuration file, or the file
\* with some of the paths it names missing
NoProject == [found |-> FALSE, config |-> ProjectFile, missing |-> {}]

Projects ==
    {NoProject}
    \cup {[found |-> TRUE, config |-> ProjectFile, missing |-> missing] :
              missing \in {{}, {resolve(configDir, "src/b.c")},
                           {resolve(configDir, "/opt/inc")}}}

\* the index of the first path of the list that is missing, 0 if there is none
firstMissing(paths, dir, missing) ==
    LET at == {i \in 1..Len(paths) : resolve(dir, paths[i]) \in missing}
    IN  IF at = {} THEN 0 ELSE CHOOSE i \in at : \A j \in at : i <= j

\* resolveConfig: the main file, then the dependencies, then the include
\* paths are resolved and looked up in turn; the first that does not exist
\* throws
resolveConfig(config, dir, missing) ==
    IF resolve(dir, config.mainFile) \in missing
    THEN Throw(Error("Main file not found"))
    ELSE IF firstMissing(config.dependencies, dir, missing) # 0
    THEN Throw(Error("Dependency file not found"))
    ELSE IF firstMissing(config.includePaths, dir, missing) # 0
    THEN Throw(Error("Include path directory not found"))
    ELSE Return([mainFile |-> resolve(dir, config.mainFile),
                 dependencies |-> [i \in 1..Len(config.dependencies) |->
                                      resolve(dir, config.dependencies[i])],
                 includePaths |-> [i \in 1..Len(config.includePaths) |->
                                      resolve(dir, config.includePaths[i])],
                 defines |-> config.defines,
                 configFileDir |-> dir])

\* loadConfig: null when no configuration file is found; the resolved
\* configuration; or, when reading, validating or resolving throws, a
\* warning to the user ("Using single-file mode") and null
loadConfig(project) ==
    IF ~project.found THEN Return(null)
    ELSE LET resolved == resolveConfig(project.config, configDir, project.missing)
         IN  IF resolved.kind = "throw" THEN Return(null) ELSE resolved

\* a constructor that does without the settings
constructor_NoSettings(settingsArg) == Return(<<>>)

\* new DependencyCache(context, projectId, outputChannel, settings), up to
\* the fingerprint: computeSettingsHash reads the fields of settings
constructor(settingsArg) ==
    IF settingsArg = undefined
    THEN Throw(TypeError("Cannot read properties of undefined (reading 'lvglVersion')"))
    ELSE Return(computeSettingsHash(settingsArg))

\* versionManager.getLvDriversIncludePath()
lvDriversIncludePath == <<"/storage/lv_drivers/master">>

\* userIncludePaths.push(lvDriversIncludePath) for LVGL v8. With a project
\* configuration userIncludePaths is the includePaths array of that object
pushIncludePath(projectConfig, major) ==
    IF projectConfig = null \/ major >= 9 THEN projectConfig
    ELSE [projectConfig EXCEPT !.includePaths = @ \o <<lvDriversIncludePath>>]

\* defines.push('LV_CONF_INCLUDE_SIMPLE') for LVGL v8, unless it is
\* included. With a project configuration defines is the array of that object
pushDefine(projectConfig, major) ==
    IF projectConfig = null \/ major >= 9
       \/ "LV_CONF_INCLUDE_SIMPLE" \in Range(projectConfig.defines)
    THEN projectConfig
    ELSE [projectConfig EXCEPT !.defines = @ \o <<"LV_CONF_INCLUDE_SIMPLE">>]

\* the result the catch block builds
catchResult(fsPath, error) ==
    [success |-> FALSE,
     errors |-> <<[file |-> fsPath, line |-> 1, column |-> 1,
                   message |-> <<"Compilation failed: ">> \o String(error),
                   severity |-> "error"]>>,
     warnings |-> <<>>]

\* outcome of the try block when a stage throws
stageThrows(error, d, stage, projectConfig) ==
    [threw |-> TRUE, error |-> error, value |-> <<>>, disk |-> d, stage |-> stage,
     projectConfig |-> projectConfig]

\* the try block of compileUserFile on disk d. in.project: what
\* ConfigLoader.loadConfig finds on disk; in.fail: the stage that throws
\* besides the library build, if any; in.lib: the inputs of buildLibrary;
\* in.link: how compileWithObjects completes. The dependency stage is left
\* out: with a project configuration the construction of the DependencyCache
\* throws, and without one the dependency list is empty
tryBlock(d, config, fileUri, in) ==
    LET load == loadConfig(in.project)
        projectConfig == load.value
        cacheCtor == constructor(undefined)
        ev == ensureVersion(d, config.lvglVersion, in.lib.download)
        lib == buildLibrary(ev.disk, config.lvglVersion, config, in.lib)
        major == majorVersion(config.lvglVersion)
        withPath == pushIncludePath(projectConfig, major)
        withDefine == pushDefine(withPath, major)
    IN  IF load.kind = "throw"
        THEN stageThrows(load.value, d, "loadConfig", null)
        ELSE IF projectConfig # null /\ cacheCtor.kind = "throw"
        THEN stageThrows(cacheCtor.value, d, "dependencyCache", projectConfig)
        ELSE IF ev.threw THEN stageThrows(ev.error, ev.disk, "ensureVersion", projectConfig)
        ELSE IF in.fail = "updateCppProperties"
             THEN stageThrows(Error("c_cpp_properties.json not written"), ev.disk,
                              "updateCppProperties", projectConfig)
        ELSE IF lib.threw THEN stageThrows(lib.error, lib.disk, "buildLibrary", projectConfig)
        ELSE IF in.fail = "generateMainFile"
             THEN stageThrows(Error("main.c not written"), lib.disk, "generateMainFile",
                              withPath)
        ELSE IF in.link.kind = "throw"
             THEN stageThrows(in.link.value, lib.disk, "compileWithObjects", withDefine)
        ELSE IF in.fail = "updateDiagnostics"
             THEN stageThrows(Error("Illegal argument"), lib.disk, "updateDiagnostics",
                              withDefine)
        ELSE [threw |-> FALSE, error |-> NoError, value |-> in.link.value,
              disk |-> lib.disk, stage |-> "done", projectConfig |-> withDefine]

\* a catch block that lets the error go on to the caller
catchBlock_Rethrow(fileUri, error) == Throw(error)

\* the catch block of compileUserFile
catchBlock(fileUri, error) == Return(catchResult(fileUri, error))

\* compileUserFile(fileUri): the memory check, then the try block
compileUserFile(d, config, fileUri, in) ==
    IF config.wasmMemorySize < minWasmMemory(config.lvglMemorySize)
    THEN [completion |-> Return(memoryErrorResult(config)), thrown |-> NoError,
          stage |-> "memory", disk |-> d, projectConfig |-> null]
    ELSE LET body == tryBlock(d, config, fileUri, in)
         IN  IF body.threw
             THEN [completion |-> catchBlock(fileUri, body.error), thrown |-> body.error,
                   stage |-> body.stage, disk |-> body.disk,
                   projectConfig |-> body.projectConfig]
             ELSE [completion |-> Return(body.value), thrown |-> NoError,
                   stage |-> body.stage, disk |-> body.disk,
                   projectConfig |-> body.projectConfig]

\* the inputs of a compileUserFile call on the current disk; an input that
\* the call does not come to use has one value
MgrInputs ==
    LET rejected == settings.wasmMemorySize < minWasmMemory(settings.lvglMemorySize)
        version == settings.lvglVersion
        hit == markerFile \in dirEntries(objDirs, cacheKey(version, settings))
        aborted(project) == /\ loadConfig(project).value # null
                            /\ constructor(undefined).kind = "throw"
        unused(lib) == /\ lib.download /\ lib.conf /\ lib.drivers
                       /\ lib.ok = Range(getSourceFiles(version))
        libThrew(lib) == ~hit /\ (~lib.download \/ ~lib.conf \/ ~lib.drivers \/ lib.ok = {})
    IN  {in \in [project : Projects,
                 fail : {"none", "updateCppProperties", "generateMainFile",
                         "updateDiagnostics"},
                 lib : LibInputs,
                 link : linkStage] :
            /\ rejected => in.project = NoProject
            /\ (rejected \/ aborted(in.project) \/ ~in.lib.download)
                  => in.fail = "none"
            /\ (rejected \/ aborted(in.project)) => in.lib.download
            /\ (rejected \/ aborted(in.project) \/ in.fail = "updateCppProperties")
                  => (unused(in.lib) /\ in.lib.listing = CHOOSE s \in
                         {l.listing : l \in LibInputs} : TRUE)
            /\ libThrew(in.lib) => in.fail \in {"none", "updateCppProperties"}
            /\ (rejected \/ aborted(in.project) \/ libThrew(in.lib)
                   \/ in.fail \in {"updateCppProperties", "generateMainFile"})
                  => in.link = linkClean
            /\ in.fail = "updateDiagnostics" => in.link.kind = "return"}

\* the call of the link stage in progress runs to its end
CompileWithObjects(sourceFile) ==
    /\ lastLink.op = "compileWithObjects" /\ ~lastLink.returned
    /\ lastLink' = [lastLink EXCEPT !.returned = TRUE,
                                    !.completion = compileWithObjects(sourceFile, lastLink.run)]
    /\ UNCHANGED <<settings, settingChanges, downloaded, lvDrivers, lvConf, objDirs,
                   lastLib, lastResult>>

\* the call of the parser in progress runs to its end
ParseCompilerOutput ==
    /\ lastLink.op = "parseCompilerOutput" /\ ~lastLink.returned
    /\ lastLink' = [lastLink EXCEPT !.returned = TRUE,
                                    !.completion = Return(parseCompilerOutput(lastLink.output))]
    /\ UNCHANGED <<settings, settingChanges, downloaded, lvDrivers, lvConf, objDirs,
                   lastLib, lastResult>>

CompileUserFile(fileUri, in) ==
    \E out \in {compileUserFile(disk, settings, fileUri, in)} :
        /\ writeDisk(out.disk)
        /\ lastLib' = [NoLib EXCEPT !.op = "compileUserFile"]
        /\ lastResult' = [op |-> "compileUserFile", file |-> fileUri,
                          project |-> in.project,
                          loaded |-> IF out.stage = "memory" THEN null
                                     ELSE loadConfig(in.project).value,
                          projectConfig |-> out.projectConfig, stage |-> out.stage,
                          thrown |-> out.thrown, completion |-> out.completion]
        /\ UNCHANGED <<settings, settingChanges, lastLink>>

(***************************************************************************)
(* The preview session: FileWatcher (src/src/watcher/fileWatcher.ts),      *)
(* WebviewManager (src/unnamed/part_001) and PreviewManager                *)
(* (src/src/preview/htmlTemplate.ts, lines 77-282). Objects are numbered   *)
(* in order of creation; 0 stands for undefined. An async method runs from *)
(* one wait on a timer or on the compiler to the next in one step.         *)
(***************************************************************************)
\* calls of startPreview and compileAndUpdate made while the model runs
MaxCalls == 3

\* the debounce delay, in ticks
DebounceDelay == 2

\* the files that change on disk: the previewed main file and a dependency
\* of the project
ChangedFiles == {ProjectFile.mainFile, ProjectFile.dependencies[1]}

NoTimer == [pending |-> FALSE, remaining |-> 0, uri |-> ""]

\* a FileWatcher after its constructor. watching: the files of its
\* FileSystemWatchers; timer: debounceTimer
newFileWatcher == [watching |-> {}, timer |-> NoTimer]

\* FileWatcher.dispose()
FileWatcher_dispose(w) == [w EXCEPT !.timer = NoTimer, !.watching = {}]

\* FileWatcher.watchFile(fileUri)
watchFile(w, fileUri) == [FileWatcher_dispose(w) EXCEPT !.watching = {fileUri}]

\* FileWatcher.watchFiles(fileUris)
watchFiles(w, fileUris) == [FileWatcher_dispose(w) EXCEPT !.watching = fileUris]

\* a debounce that lets a running timer run on
debounce_KeepTimer(timer, uri) ==
    IF timer.pending THEN timer
    ELSE [pending |-> TRUE, remaining |-> DebounceDelay, uri |-> uri]

\* FileWatcher.debounce(func): clearTimeout of the running timer, then a new
\* timer of debounceDelay that calls the callback with uri
debounce(timer, uri) == [pending |-> TRUE, remaining |-> DebounceDelay, uri |-> uri]

\* the onDidChange handler of the FileSystemWatcher of a file
onDidChange(w, file) ==
    IF file \in w.watching THEN [w EXCEPT !.timer = debounce(w.timer, file)] ELSE w

\* the timer is due
due(w) == w.timer.pending /\ w.timer.remaining = 0

(***************************************************************************)
(* A FileWatcher on its own, with a callback that is counted, and time in  *)
(* ticks: a timer fires at the tick it is due.                             *)
(***************************************************************************)
\* change events of one sequence that the model follows
MaxEvents == 3

\* the files given to a FileWatcher on its own: the files of the project
WatchedFiles == {ProjectFile.mainFile} \cup Range(ProjectFile.dependencies)

\* history of the FileWatcher on its own, for the current sequence of change
\* events, each less than the delay after the one before. events: the
\* events of the sequence so far (0: none since the files were set);
\* elapsed: the ticks since the last event, counted up to one past the
\* delay; invocations: the callback invocations since the last event; uri:
\* the argument of the last invocation
NoBurst == [events |-> 0, elapsed |-> 0, invocations |-> 0, uri |-> ""]

\* watchFiles(fileUris) is called on the FileWatcher
WatchFiles(fileUris) ==
    /\ watchers[1].watching # fileUris
    /\ watchers' = [watchers EXCEPT ![1] = watchFiles(@, fileUris)]
    /\ burst' = NoBurst

\* a watched file changes
OnDidChange(file) ==
    /\ file \in watchers[1].watching
    /\ watchers[1].timer.pending => burst.events < MaxEvents
    /\ watchers' = [watchers EXCEPT ![1] = onDidChange(@, file)]
    /\ burst' = [burst EXCEPT !.events = IF burst.elapsed < DebounceDelay THEN @ + 1 ELSE 1,
                              !.elapsed = 0, !.invocations = 0]

\* a tick passes; a timer that is due fires first
TimePasses ==
    /\ ~due(watchers[1])
    /\ watchers[1].timer.pending \/ (burst.events > 0 /\ burst.elapsed <= DebounceDelay)
    /\ watchers' = [watchers EXCEPT ![1].timer.remaining = IF watchers[1].timer.pending
                                                           THEN @ - 1 ELSE @]
    /\ burst' = [burst EXCEPT !.elapsed = IF burst.events > 0 /\ @ <= DebounceDelay
                                          THEN @ + 1 ELSE @]

\* the timer fires: func() calls the callback, then debounceTimer = undefined
TimerFires ==
    /\ due(watchers[1])
    /\ watchers' = [watchers EXCEPT ![1].timer = NoTimer]
    /\ burst' = [burst EXCEPT !.invocations = @ + 1, !.uri = watchers[1].timer.uri]

(***************************************************************************)
(* WebviewManager and PreviewManager. The delay of a pending debounce      *)
(* timer is not counted here: the timer fires at some later step.          *)
(***************************************************************************)
\* a webview panel: live until it is disposed; manager: the WebviewManager
\* that created it; closedBy: who disposed it, the user or the program
newPanel(manager) == [live |-> TRUE, manager |-> manager, closedBy |-> ""]

\* panel.dispose() of panel p, if there is one
disposePanel(ps, p, by) ==
    IF p = 0 THEN ps ELSE [ps EXCEPT ![p] = [live |-> FALSE, manager |-> 0, closedBy |-> by]]

\* history record of the last step of the session. For a file change:
\* watching, a FileWatcher was referenced by the PreviewManager; armed, the
\* change started a debounce timer. For a callback of a FileWatcher:
\* afterStop, stopPreview had returned and startPreview was not called
\* since. For the result message of a compilation: the call, its kind, the
\* message, the panel its recreate created and the panel the message was
\* posted to
NoEvent == [op |-> "none", file |-> "", watching |-> FALSE, armed |-> FALSE,
            afterStop |-> FALSE, call |-> 0, isReload |-> FALSE, type |-> "",
            created |-> 0, target |-> 0]

\* a call of startPreview or compileAndUpdate. pc: where it waits
\* ("recreate": the delay of WebviewManager.recreate; "compiling":
\* compileUserFile; "done"); wm: the WebviewManager whose recreate runs;
\* created: the panel that recreate created
newCall(op, file, isReload, pc, wm) ==
    [op |-> op, file |-> file, isReload |-> isReload, pc |-> pc, wm |-> wm, created |-> 0]

\* a call that has returned
DoneCall == newCall("", "", FALSE, "done", 0)

\* compileAndUpdate(uri, isReload) up to its first wait: on a reload with a
\* WebviewManager, recreate disposes the panel and waits; otherwise the
\* compilation starts
BeginCompileAndUpdate(uri, isReload) ==
    IF isReload /\ webviewManager # 0
    THEN /\ panels' = disposePanel(panels, managers[webviewManager].panel, "program")
         /\ managers' = [managers EXCEPT ![webviewManager].panel = 0]
         /\ calls' = Append(calls, newCall("compileAndUpdate", uri, isReload,
                                           "recreate", webviewManager))
    ELSE /\ calls' = Append(calls, newCall("compileAndUpdate", uri, isReload,
                                           "compiling", 0))
         /\ UNCHANGED <<panels, managers>>

\* the command lvgl-preview.start: startPreview(fileUri) up to the compilation.
\* A WebviewManager is made if there is none, and createOrShow creates a
\* panel if the manager has none
StartPreview(fileUri) ==
    /\ Len(calls) < MaxCalls
    /\ LET fresh == webviewManager = 0
           m == IF fresh THEN Len(managers) + 1 ELSE webviewManager
           ms == IF fresh THEN Append(managers, [panel |-> 0]) ELSE managers
       IN  /\ webviewManager' = m
           /\ IF ms[m].panel # 0
              THEN /\ managers' = ms
                   /\ UNCHANGED panels
              ELSE /\ panels' = Append(panels, newPanel(m))
                   /\ managers' = [ms EXCEPT ![m].panel = Len(panels) + 1]
    /\ currentFile' = fileUri
    /\ stopped' = FALSE
    /\ calls' = Append(calls, newCall("startPreview", fileUri, FALSE, "compiling", 0))
    /\ lastEvent' = NoEvent
    /\ UNCHANGED <<fileWatcher, watchers, burst>>

\* the delay of recreate is over: createPanel, and the compilation starts
RecreateResumes(c) ==
    /\ calls[c].pc = "recreate"
    /\ panels' = Append(panels, newPanel(calls[c].wm))
    /\ managers' = [managers EXCEPT ![calls[c].wm].panel = Len(panels) + 1]
    /\ calls' = [calls EXCEPT ![c].pc = "compiling", ![c].created = Len(panels) + 1]
    /\ lastEvent' = NoEvent
    /\ UNCHANGED <<webviewManager, fileWatcher, watchers, currentFile, stopped, burst>>

\* compileUserFile returns to compileAndUpdate: loadWasm or showError is
\* sent through this.webviewManager, which posts it to the panel it has.
\* startPreview then makes a FileWatcher for the file when autoReload is set
CompileReturns(c, success, autoReload) ==
    /\ calls[c].pc = "compiling"
    /\ calls' = [calls EXCEPT ![c] = DoneCall]
    /\ lastEvent' = [NoEvent EXCEPT !.op = "result", !.call = c,
                        !.isReload = calls[c].isReload,
                        !.type = IF success THEN "loadWasm" ELSE "showError",
                        !.created = calls[c].created,
                        !.target = IF webviewManager = 0 THEN 0
                                   ELSE managers[webviewManager].panel]
    /\ IF calls[c].op = "startPreview" /\ autoReload
       THEN /\ watchers' = Append(watchers, watchFile(newFileWatcher, calls[c].file))
            /\ fileWatcher' = Len(watchers) + 1
       ELSE UNCHANGED <<watchers, fileWatcher>>
    /\ UNCHANGED <<webviewManager, managers, panels, currentFile, stopped, burst>>

\* the command lvgl-preview.rebuild: rebuild()
Rebuild ==
    /\ Len(calls) < MaxCalls
    /\ currentFile # ""
    /\ BeginCompileAndUpdate(currentFile, TRUE)
    /\ lastEvent' = NoEvent
    /\ UNCHANGED <<webviewManager, fileWatcher, watchers, currentFile, stopped, burst>>

\* the command lvgl-preview.stop: stopPreview()
StopPreview ==
    /\ ~stopped
    /\ watchers' = IF fileWatcher = 0 THEN watchers
                   ELSE [watchers EXCEPT ![fileWatcher] = FileWatcher_dispose(@)]
    /\ fileWatcher' = 0
    /\ panels' = IF webviewManager = 0 THEN panels
                 ELSE disposePanel(panels, managers[webviewManager].panel, "program")
    /\ managers' = IF webviewManager = 0 THEN managers
                   ELSE [managers EXCEPT ![webviewManager].panel = 0]
    /\ webviewManager' = 0
    /\ currentFile' = ""
    /\ stopped' = TRUE
    /\ lastEvent' = NoEvent
    /\ UNCHANGED <<calls, burst>>

\* the user closes a panel: the onDidDispose handler registered by
\* createPanel clears the panel field of the manager that created it
ClosePanel(p) ==
    /\ panels[p].live
    /\ panels' = disposePanel(panels, p, "user")
    /\ managers' = [managers EXCEPT ![panels[p].manager].panel = 0]
    /\ lastEvent' = NoEvent
    /\ UNCHANGED <<webviewManager, fileWatcher, watchers, currentFile, calls, stopped, burst>>

\* a file changes on disk: the FileSystemWatchers of the file fire
Change(file) ==
    /\ watchers' = [i \in DOMAIN watchers |-> onDidChange(watchers[i], file)]
    /\ lastEvent' = [NoEvent EXCEPT !.op = "change", !.file = file,
                        !.watching = fileWatcher # 0,
                        !.armed = \E i \in DOMAIN watchers : file \in watchers[i].watching]
    /\ UNCHANGED <<webviewManager, managers, panels, fileWatcher, currentFile, calls,
                   stopped, burst>>

\* the debounce timer of watcher i fires after its delay: the callback of
\* the PreviewManager runs compileAndUpdate(uri, true) up to its first wait,
\* and debounceTimer becomes undefined
Fire(i) ==
    /\ Len(calls) < MaxCalls
    /\ watchers[i].timer.pending
    /\ watchers' = [watchers EXCEPT ![i].timer = NoTimer]
    /\ BeginCompileAndUpdate(watchers[i].timer.uri, TRUE)
    /\ lastEvent' = [NoEvent EXCEPT !.op = "callback", !.file = watchers[i].timer.uri,
                                    !.afterStop = stopped]
    /\ UNCHANGED <<webviewManager, fileWatcher, currentFile, stopped, burst>>

\* no preview has been started
PreviewIdle ==
    /\ webviewManager = 0
    /\ managers = <<>>
    /\ panels = <<>>
    /\ fileWatcher = 0
    /\ watchers = <<>>
    /\ currentFile = ""
    /\ calls = <<>>
    /\ stopped = FALSE
    /\ lastEvent = NoEvent
    /\ burst = NoBurst

(***************************************************************************)
(* EmccWrapper.compileToObjects step by step: the source files are handed  *)
(* to emcc in batches, the emcc processes of a batch run side by side, and *)
(* Promise.all waits for all of them.                                      *)
(***************************************************************************)
\* "const batchSize = 10"
batchSize == 10

\* the longest list of source files handed to a call
MaxFiles == 11

\* source files of a tree, in the order they are handed over
BatchTree ==
    <<"src/a.c", "src/b.c", "src/c.c", "src/d.c", "src/e.c", "src/f.c",
      "src/g.c", "src/h.c", "src/i.c", "src/j.c", "src/k.c", "src/l.c">>

\* the lists handed to a call: the first n files of the tree, and the same
\* with lib/a.c as the last file, a file named like the first one
BatchLists ==
    {SubSeq(BatchTree, 1, n) : n \in 0..MaxFiles}
    \cup {Append(SubSeq(BatchTree, 1, n - 1), "lib/a.c") : n \in 2..MaxFiles}

\* a minimum that is always the length
min_Length(a, b) == b

\* Math.min(a, b)
min(a, b) == IF a < b THEN a ELSE b

\* the indices of sourceFiles.slice(i, Math.min(i + batchSize, sourceFiles.length)),
\* counted from 1
slice(i, length) == (i + 1)..min(i + batchSize, length)

\* the call of compileToObjects. op: "none", "running" or "returned"; i: the
\* loop variable; status: per source file "waiting", "running" (its emcc
\* process is in flight), "done" (emcc wrote the object) or "failed";
\* objectFiles: the list built so far; starts: history, the emcc processes
\* started per source file
NoBatch == [op |-> "none", sourceFiles |-> <<>>, i |-> 0, status |-> <<>>,
            objectFiles |-> <<>>, starts |-> <<>>]

\* the loop test and the start of a batch: batch.map starts the emcc process
\* of every member; past the end of the list the call returns
startBatch(b) ==
    IF b.i < Len(b.sourceFiles)
    THEN [b EXCEPT
            !.status = [j \in DOMAIN b.status |->
                          IF j \in slice(b.i, Len(b.sourceFiles)) THEN "running"
                          ELSE b.status[j]],
            !.starts = [j \in DOMAIN b.starts |->
                          IF j \in slice(b.i, Len(b.sourceFiles)) THEN b.starts[j] + 1
                          ELSE b.starts[j]]]
    ELSE [b EXCEPT !.op = "returned"]

\* Promise.all has resolved: the objects of the batch are pushed, failures
\* filtered out, and the loop goes on with i += batchSize
endBatch(b) ==
    LET members == slice(b.i, Len(b.sourceFiles))
        from == b.i + 1
        to == min(b.i + batchSize, Len(b.sourceFiles))
        ok == {b.sourceFiles[j] : j \in {m \in members : b.status[m] = "done"}}
    IN  startBatch([b EXCEPT
            !.objectFiles = @ \o compileToObjects(SubSeq(b.sourceFiles, from, to), ok),
            !.i = @ + batchSize])

\* compileToObjects(sourceFiles, ...) is called
CompileToObjects(sourceFiles) ==
    /\ batch.op = "none"
    /\ batch' = startBatch([NoBatch EXCEPT
                    !.op = "running",
                    !.sourceFiles = sourceFiles,
                    !.status = [j \in 1..Len(sourceFiles) |-> "waiting"],
                    !.starts = [j \in 1..Len(sourceFiles) |-> 0]])

\* the emcc process of source file j exits, with the object written (ok) or
\* with an error; when it is the last of its batch the loop goes on
EmccExits(j, ok) ==
    /\ batch.op = "running"
    /\ batch.status[j] = "running"
    /\ LET b == [batch EXCEPT !.status[j] = IF ok THEN "done" ELSE "failed"]
       IN  batch' = IF \E m \in DOMAIN b.status : b.status[m] = "running"
                    THEN b ELSE endBatch(b)

\* no call of compileToObjects has been made
BatchIdle == batch = NoBatch

(***************************************************************************)
(* CompilationManager.compileUserFile step by step: the call runs from one *)
(* wait on a download or on emcc to the next in one step. The stages that  *)
(* wait: ensureVersion, and inside buildLibrary ensureLvDrivers and        *)
(* compileToObjects, then compileDependencies and compileWithObjects.      *)
(***************************************************************************)
\* the settings a request is made under: the defaults, LVGL 8, and a WASM
\* memory below the minimum
RequestSettings ==
    {DefaultSettings,
     [DefaultSettings EXCEPT !.lvglVersion = "8.3.0"],
     [DefaultSettings EXCEPT !.wasmMemorySize = 32]}

\* the call of compileUserFile. pc: "idle", the stage the call waits in, or
\* "returned"; config, project: the settings and the project file the call
\* found; fail: the stage without a wait that throws, if any; hit, conf:
\* buildLibrary finds the marker file, lv_conf.h gets written;
\* dependencyCache: CompilationManager.dependencyCache; result: the
\* CompilationResult returned, "success" or "failure"; thrownAt: the stage
\* whose error the catch block caught. History: libStage and depStage, ""
\* until the stage starts, then "running", then "returned" or "threw";
\* linkCount, the invocations of compileWithObjects; additionalSourceFiles,
\* the driver sources handed to compileWithObjects
NoRequest ==
    [pc |-> "idle", config |-> DefaultSettings, project |-> NoProject, fail |-> "none",
     hit |-> FALSE, conf |-> TRUE, dependencyCache |-> undefined, result |-> "",
     thrownAt |-> "", libStage |-> "", depStage |-> "", linkCount |-> 0,
     additionalSourceFiles |-> <<>>]

\* a catch block that leaves the call where it is
caught_Nothing(r, stage) == r

\* the catch block of compileUserFile: the error becomes a failure result
caught(r, stage) ==
    [r EXCEPT !.pc = "returned", !.result = "failure", !.thrownAt = stage,
              !.libStage = IF @ = "running" THEN "threw" ELSE @,
              !.depStage = IF @ = "running" THEN "threw" ELSE @]

\* generateMainFile, then compileWithObjects is invoked
enterLink(r) ==
    IF r.fail = "generateMainFile" THEN caught(r, "generateMainFile")
    ELSE [r EXCEPT !.pc = "compileWithObjects", !.linkCount = @ + 1,
                   !.additionalSourceFiles = additionalSourceFiles(r.config.lvglVersion)]

\* the dependencies of the request
dependenciesOf(r) ==
    LET projectConfig == loadConfig(r.project).value
    IN  IF projectConfig = null THEN <<>> ELSE projectConfig.dependencies

\* buildLibrary has returned: the dependency stage when there are
\* dependencies and a DependencyCache, then the link stage
afterLibrary(r) ==
    LET lib == [r EXCEPT !.libStage = "returned"]
    IN  IF Len(dependenciesOf(r)) > 0 /\ r.dependencyCache # undefined
        THEN [lib EXCEPT !.pc = "compileDependencies", !.depStage = "running"]
        ELSE enterLink(lib)

\* a buildLibrary that is not waited for: the call goes straight on
beginLibrary_NoAwait(r) == enterLink([r EXCEPT !.libStage = "running"])

\* buildLibrary up to its first wait
beginLibrary(r) ==
    LET lib == [r EXCEPT !.libStage = "running"]
    IN  IF r.hit THEN afterLibrary(lib)
        ELSE IF ~r.conf THEN caught(lib, "buildLibrary")
        ELSE IF needsLvDrivers(r.config.lvglVersion)
             THEN [lib EXCEPT !.pc = "ensureLvDrivers"]
        ELSE [lib EXCEPT !.pc = "compileToObjects"]

\* the call goes on after the wait of stage r.pc; ok: the download or the
\* emcc run succeeded; objectFiles: what compileToObjects returned
resume(r, ok, objectFiles) ==
    CASE r.pc = "ensureVersion" ->
            IF ~ok THEN caught(r, "ensureVersion")
            ELSE IF r.fail = "updateCppProperties" THEN caught(r, "updateCppProperties")
            ELSE beginLibrary(r)
      [] r.pc = "ensureLvDrivers" ->
            IF ~ok THEN caught(r, "buildLibrary")
            ELSE [r EXCEPT !.pc = "compileToObjects"]
      [] r.pc = "compileToObjects" ->
            IF buildFails(objectFiles) THEN caught(r, "buildLibrary")
            ELSE afterLibrary(r)
      [] r.pc = "compileDependencies" ->
            IF ~ok THEN caught(r, "compileDependencies")
            ELSE enterLink([r EXCEPT !.depStage = "returned"])
      [] r.pc = "compileWithObjects" ->
            IF r.fail = "updateDiagnostics" THEN caught(r, "updateDiagnostics")
            ELSE [r EXCEPT !.pc = "returned",
                           !.result = IF ok THEN "success" ELSE "failure"]

\* the inputs of a request; an input that the call does not come to use has
\* one value
RequestInputs ==
    {in \in [config : RequestSettings, project : Projects,
             fail : {"none", "updateCppProperties", "generateMainFile", "updateDiagnostics"},
             hit : BOOLEAN, conf : BOOLEAN] :
        LET rejected == in.config.wasmMemorySize < minWasmMemory(in.config.lvglMemorySize)
            aborted == /\ loadConfig(in.project).value # null
                       /\ constructor(undefined).kind = "throw"
        IN  /\ rejected => in.project = NoProject
            /\ (rejected \/ aborted) => (in.fail = "none" /\ ~in.hit /\ in.conf)
            /\ in.fail = "updateCppProperties" => (~in.hit /\ in.conf)
            /\ in.hit => in.conf}

\* compileUserFile(fileUri) is called: the memory check, loadConfig and the
\* construction of the DependencyCache, up to the wait for ensureVersion
CompileUserFileBegins(in) ==
    /\ request.pc = "idle"
    /\ LET r == [NoRequest EXCEPT !.config = in.config, !.project = in.project,
                                  !.fail = in.fail, !.hit = in.hit, !.conf = in.conf]
           projectConfig == loadConfig(in.project).value
           cacheCtor == constructor(undefined)
       IN  request' =
              IF in.config.wasmMemorySize < minWasmMemory(in.config.lvglMemorySize)
              THEN [r EXCEPT !.pc = "returned", !.result = "failure"]
              ELSE IF projectConfig # null /\ cacheCtor.kind = "throw"
              THEN caught(r, "dependencyCache")
              ELSE [r EXCEPT !.pc = "ensureVersion",
                             !.dependencyCache = IF projectConfig # null
                                                 THEN cacheCtor.value ELSE undefined]
    /\ UNCHANGED batch

\* the wait of the stage the call is in ends: a download or an emcc run has
\* succeeded (ok) or failed, or compileToObjects has returned; the call goes
\* on to its next wait or to its return
StageEnds(ok) ==
    /\ request.pc \notin {"idle", "returned"}
    /\ request.pc = "compileToObjects" => (batch.op = "returned" /\ ok)
    /\ request' = resume(request, ok, batch.objectFiles)
    /\ batch' = IF request'.pc = "compileToObjects"
                THEN startBatch([NoBatch EXCEPT
                        !.op = "running",
                        !.sourceFiles = getSourceFiles(request.config.lvglVersion),
                        !.status = [j \in 1..Len(getSourceFiles(request.config.lvglVersion))
                                       |-> "waiting"],
                        !.starts = [j \in 1..Len(getSourceFiles(request.config.lvglVersion))
                                       |-> 0]])
                ELSE batch

\* no call of compileUserFile has been made
RequestIdle == request = NoRequest

(***************************************************************************)
(* DependencyCache.computeSettingsHash on pairs of settings bundles.       *)
(***************************************************************************)
\* string arrays of a settings bundle: one entry, or two in either order
pathLists(S) == {<<x>> : x \in S} \cup {<<x, y>> : x \in S, y \in S}

\* the settings bundles the fingerprint is computed for
HashBundles ==
    [lvglVersion : {"9.2.0", "8.3.0"}, optimization : {"-O1", "-O2"},
     lvglMemorySize : {128, 256}, wasmMemorySize : {128, 256},
     includePaths : pathLists(IncludeDirs),
     defines : pathLists({"DEBUG", "LV_CONF_INCLUDE_SIMPLE"})]

NoHash == [op |-> "none", a |-> <<>>, b |-> <<>>, returned |-> FALSE,
           hashA |-> <<>>, hashB |-> <<>>]

\* the two calls in progress run to their end
ComputeSettingsHash ==
    /\ lastHash.op = "computeSettingsHash" /\ ~lastHash.returned
    /\ lastHash' = [lastHash EXCEPT !.returned = TRUE,
                                    !.hashA = computeSettingsHash(lastHash.a),
                                    !.hashB = computeSettingsHash(lastHash.b)]

\* no fingerprint call is in progress
HashIdle == lastHash = NoHash

\* the session outside the build: nothing has been called
SessionIdle == HashIdle /\ PreviewIdle /\ BatchIdle /\ RequestIdle

(***************************************************************************)
(* Specification of the library build and of the orchestrator.             *)
(***************************************************************************)
\* global storage before anything is downloaded or built
LibIdle ==
    /\ settingChanges = 0
    /\ downloaded = {}
    /\ lvDrivers = FALSE
    /\ lvConf = [v \in SettingValues.lvglVersion |-> NoKey]
    /\ objDirs = EmptyMap
    /\ lastLib = NoLib
    /\ lastResult = NoResult
    /\ lastLink = NoLink

LibInit == settings = DefaultSettings /\ LibIdle

DoBuildLibrary ==
    /\ \E in \in LibInputs : BuildLibrary(in)
    /\ UNCHANGED <<cacheVars, sessionVars>>
DoClearCache ==
    /\ \E kept \in [DOMAIN objDirs -> SUBSET (LibObjects \cup {markerFile})] : ClearCache(kept)
    /\ UNCHANGED <<cacheVars, sessionVars>>
DoChangeSetting ==
    /\ \E name \in SettingNames : \E value \in SettingValues[name] : ChangeSetting(name, value)
    /\ UNCHANGED <<cacheVars, sessionVars>>
\* the user changes one of the settings compileUserFile reads itself
DoChangeRequestSetting ==
    /\ \E name \in {"lvglVersion", "wasmMemorySize", "lvglMemorySize"} :
          \E value \in SettingValues[name] : ChangeSetting(name, value)
    /\ UNCHANGED <<cacheVars, sessionVars>>
DoCompileUserFile ==
    /\ \E fileUri \in UserFiles, in \in MgrInputs : CompileUserFile(fileUri, in)
    /\ UNCHANGED <<cacheVars, sessionVars>>

DoCompileWithObjects ==
    /\ \E sourceFile \in UserFiles : CompileWithObjects(sourceFile)
    /\ UNCHANGED <<cacheVars, sessionVars>>
DoParseCompilerOutput ==
    /\ ParseCompilerOutput
    /\ UNCHANGED <<cacheVars, sessionVars>>

(***************************************************************************)
(* Specification of the dependency cache and the dependency build stage.   *)
(***************************************************************************)
CacheInit ==
    /\ LibInit
    /\ SessionIdle
    /\ srcFile = [s \in Sources |-> [exists |-> TRUE, content |-> 1, mtime |-> 1]]
    /\ objOnDisk = {}
    /\ metadata = NoMetadata
    /\ cache = EmptyMap
    /\ currentSettingsHash \in SettingsHashes
    /\ recordedUnder = EmptyMap
    /\ last = NoOp

DoNewDependencyCache ==
    /\ \E bundle \in SettingsSet : NewDependencyCache(bundle)
    /\ UNCHANGED <<libVars, sessionVars>>
DoUpdateCache ==
    /\ \E s \in Sources, o \in ObjPaths : UpdateCache(s, o)
    /\ UNCHANGED <<libVars, sessionVars>>
DoClear ==
    /\ \E kept \in SUBSET (ObjPaths \cup {metadataPath}) : Clear(kept)
    /\ UNCHANGED <<libVars, sessionVars>>
DoCompileDependencies ==
    /\ \E deps \in DepLists, ok \in SUBSET Sources : CompileDependencies(deps, ok)
    /\ UNCHANGED <<libVars, sessionVars>>
DoWriteSource ==
    /\ \E s \in EditedSources, c \in Contents, m \in Mtimes : WriteSource(s, c, m)
    /\ UNCHANGED <<libVars, sessionVars>>
DoDeleteSource ==
    /\ \E s \in EditedSources : DeleteSource(s)
    /\ UNCHANGED <<libVars, sessionVars>>
DoDeleteObject ==
    /\ \E o \in ObjPaths : DeleteObject(o)
    /\ UNCHANGED <<libVars, sessionVars>>

\* emcc, run by compileToObjects, writes an object file into the cache directory
WriteObject(objectPath) ==
    /\ objectPath \notin objOnDisk
    /\ objOnDisk' = objOnDisk \cup {objectPath}
    /\ last' = [NoOp EXCEPT !.op = "writeObject", !.obj = objectPath]
    /\ UNCHANGED <<srcFile, metadata, cache, currentSettingsHash, recordedUnder>>

DoWriteObject ==
    /\ \E o \in ObjPaths : WriteObject(o)
    /\ UNCHANGED <<libVars, sessionVars>>

DoCorruptMetadata ==
    /\ \E kind \in {"unreadable", "badEntry"} : CorruptMetadata(kind)
    /\ UNCHANGED <<libVars, sessionVars>>

\* the DependencyCache class, driven through its public methods, and the
\* file system under it
CacheNext ==
    \/ DoNewDependencyCache
    \/ DoUpdateCache
    \/ DoClear
    \/ DoWriteSource
    \/ DoDeleteSource
    \/ DoWriteObject
    \/ DoDeleteObject

SpecCache == CacheInit /\ [][CacheNext]_vars

\* the dependency build stage: builds of the project, each on a cache that is
\* the one in use or a newly constructed one, and the file system under them
DepsNext ==
    \/ DoNewDependencyCache
    \/ DoCompileDependencies
    \/ DoWriteSource
    \/ DoDeleteSource
    \/ DoDeleteObject

SpecDeps == CacheInit /\ [][DepsNext]_vars

\* the persisted index: caches constructed over an index that entries are
\* added to and that gets damaged from outside
StoreNext ==
    \/ DoNewDependencyCache
    \/ DoUpdateCache
    \/ DoCorruptMetadata
    \/ DoWriteSource
    \/ DoWriteObject

SpecStore == CacheInit /\ [][StoreNext]_vars

\* a CachedDependency as written before the settingsHash field existed
legacyEntry(sourcePath, content, mtime) ==
    [sourcePath |-> sourcePath,
     objectPath |-> objFile(sourcePath),
     sourceHash |-> computeFileHash(content),
     lastModified |-> mtime,
     settingsHash |-> <<>>]

\* the indexes an earlier version of the extension left behind
LegacyIndexes ==
    {[state |-> "ok", entries |-> <<legacyEntry("src/a.c", c, m)>>] :
         c \in Contents, m \in Mtimes}
    \cup {[state |-> "ok",
           entries |-> <<legacyEntry("src/a.c", c, m), legacyEntry("src/b.c", 1, 1)>>] :
              c \in Contents, m \in Mtimes}

\* the cache directory holds an old index and the objects it names
LegacyInit ==
    /\ LibInit
    /\ SessionIdle
    /\ srcFile = [s \in Sources |-> [exists |-> TRUE, content |-> 1, mtime |-> 1]]
    /\ objOnDisk = ObjPaths
    /\ metadata \in LegacyIndexes
    /\ cache = EmptyMap
    /\ currentSettingsHash \in SettingsHashes
    /\ recordedUnder = EmptyMap
    /\ last = NoOp

\* caches constructed over an old index, under the settings of the day, and
\* the file system under them
LegacyNext ==
    \/ DoNewDependencyCache
    \/ DoUpdateCache
    \/ DoWriteSource
    \/ DoDeleteSource
    \/ DoDeleteObject

SpecLegacy == LegacyInit /\ [][LegacyNext]_vars

\* the state of the dependency cache before a DependencyCache is constructed
CacheIdle ==
    /\ srcFile = [s \in Sources |-> [exists |-> TRUE, content |-> 1, mtime |-> 1]]
    /\ objOnDisk = {}
    /\ metadata = NoMetadata
    /\ cache = EmptyMap
    /\ currentSettingsHash = computeSettingsHash(
          [lvglVersion |-> "9.2.0", optimization |-> "-O1", lvglMemorySize |-> 256,
           wasmMemorySize |-> 128, includePaths |-> <<>>, defines |-> <<>>])
    /\ recordedUnder = EmptyMap
    /\ last = NoOp

BuildInit == CacheIdle /\ LibInit /\ SessionIdle

\* the library build stage: builds, settings changes and cache clearing
LibNext ==
    \/ DoBuildLibrary
    \/ DoChangeSetting
    \/ DoClearCache

SpecLib == BuildInit /\ [][LibNext]_vars

\* the link stage: runs of emcc by compileWithObjects, and the parser on outputs
LinkNext ==
    \/ DoCompileWithObjects
    \/ DoParseCompilerOutput

\* a call of compileWithObjects with a run of emcc, or a call of
\* parseCompilerOutput with an output, has begun
LinkInit ==
    /\ CacheIdle
    /\ SessionIdle
    /\ settings = DefaultSettings
    /\ settingChanges = 0
    /\ downloaded = {}
    /\ lvDrivers = FALSE
    /\ lvConf = [v \in SettingValues.lvglVersion |-> NoKey]
    /\ objDirs = EmptyMap
    /\ lastLib = NoLib
    /\ lastResult = NoResult
    /\ lastLink \in {[NoLink EXCEPT !.op = "compileWithObjects", !.run = run] : run \in LinkRuns}
                     \cup {[NoLink EXCEPT !.op = "parseCompilerOutput", !.output = output] :
                               output \in Outputs}

SpecLink == LinkInit /\ [][LinkNext]_vars

\* build requests: compileUserFile under the settings the user chooses
MgrNext ==
    \/ DoCompileUserFile
    \/ DoChangeRequestSetting

\* the settings the session starts with: the defaults, or memory sizes the
\* user has set before: 1024 KB and 1025 KB of LVGL heap with 33 MB of WASM memory
StartSettings ==
    {DefaultSettings}
    \cup {[DefaultSettings EXCEPT !.lvglMemorySize = kb, !.wasmMemorySize = 33] :
              kb \in {1024, 1025}}

MgrInit == CacheIdle /\ LibIdle /\ SessionIdle /\ settings \in StartSettings

SpecMgr == MgrInit /\ [][MgrNext]_vars

DoComputeSettingsHash ==
    /\ ComputeSettingsHash
    /\ UNCHANGED <<cacheVars, libVars, previewVars, batch, request>>

\* two settings bundles are about to be fingerprinted
HashInit ==
    /\ CacheIdle
    /\ LibInit
    /\ PreviewIdle
    /\ BatchIdle
    /\ RequestIdle
    /\ lastHash \in {[NoHash EXCEPT !.op = "computeSettingsHash", !.a = a, !.b = b] :
                        a \in HashBundles, b \in HashBundles}

HashNext == DoComputeSettingsHash

SpecHash == HashInit /\ [][HashNext]_vars

DoStartPreview ==
    /\ \E fileUri \in UserFiles : StartPreview(fileUri)
    /\ UNCHANGED <<cacheVars, libVars, lastHash, batch, request>>
DoRecreateResumes ==
    /\ \E c \in DOMAIN calls : RecreateResumes(c)
    /\ UNCHANGED <<cacheVars, libVars, lastHash, batch, request>>
DoCompileReturns ==
    /\ \E c \in DOMAIN calls, success \in BOOLEAN, autoReload \in BOOLEAN :
          /\ calls[c].op # "startPreview" => autoReload
          /\ CompileReturns(c, success, autoReload)
    /\ UNCHANGED <<cacheVars, libVars, lastHash, batch, request>>
DoRebuild ==
    /\ Rebuild
    /\ UNCHANGED <<cacheVars, libVars, lastHash, batch, request>>
DoStopPreview ==
    /\ StopPreview
    /\ UNCHANGED <<cacheVars, libVars, lastHash, batch, request>>
DoClosePanel ==
    /\ \E p \in DOMAIN panels : ClosePanel(p)
    /\ UNCHANGED <<cacheVars, libVars, lastHash, batch, request>>
DoChange ==
    /\ \E file \in ChangedFiles : Change(file)
    /\ UNCHANGED <<cacheVars, libVars, lastHash, batch, request>>
DoFire ==
    /\ \E i \in DOMAIN watchers : Fire(i)
    /\ UNCHANGED <<cacheVars, libVars, lastHash, batch, request>>

\* the preview session: the commands, the user closing panels, file
\* changes, timers firing, and the calls in progress going on
PreviewNext ==
    \/ DoStartPreview
    \/ DoRecreateResumes
    \/ DoCompileReturns
    \/ DoRebuild
    \/ DoStopPreview
    \/ DoClosePanel
    \/ DoChange
    \/ DoFire

PreviewInit == CacheIdle /\ LibInit /\ SessionIdle

SpecPreview == PreviewInit /\ [][PreviewNext]_vars

WatcherFrame ==
    UNCHANGED <<cacheVars, libVars, lastHash, webviewManager, managers, panels, fileWatcher,
                currentFile, calls, stopped, lastEvent, batch, request>>

DoWatchFiles ==
    /\ \E fileUris \in SUBSET WatchedFiles : WatchFiles(fileUris)
    /\ WatcherFrame
DoOnDidChange ==
    /\ \E file \in WatchedFiles : OnDidChange(file)
    /\ WatcherFrame
DoTimePasses ==
    /\ TimePasses
    /\ WatcherFrame
DoTimerFires ==
    /\ TimerFires
    /\ WatcherFrame

\* a FileWatcher has been constructed
WatcherInit ==
    /\ CacheIdle
    /\ LibInit
    /\ HashIdle
    /\ webviewManager = 0
    /\ managers = <<>>
    /\ panels = <<>>
    /\ fileWatcher = 1
    /\ watchers = <<newFileWatcher>>
    /\ currentFile = ""
    /\ calls = <<>>
    /\ stopped = FALSE
    /\ lastEvent = NoEvent
    /\ burst = NoBurst
    /\ BatchIdle
    /\ RequestIdle

\* a FileWatcher on its own: the files to watch are set, watched files
\* change, time passes, the timer fires
WatcherNext ==
    \/ DoWatchFiles
    \/ DoOnDidChange
    \/ DoTimePasses
    \/ DoTimerFires

SpecWatcher == WatcherInit /\ [][WatcherNext]_vars

DoCompileToObjects ==
    /\ \E sourceFiles \in BatchLists : CompileToObjects(sourceFiles)
    /\ UNCHANGED <<cacheVars, libVars, lastHash, previewVars, request>>
DoEmccExits ==
    /\ \E j \in DOMAIN batch.status, ok \in BOOLEAN : EmccExits(j, ok)
    /\ UNCHANGED <<cacheVars, libVars, lastHash, previewVars, request>>

\* a call of compileToObjects and the emcc processes it starts
BatchNext ==
    \/ DoCompileToObjects
    \/ DoEmccExits

SpecBatch == BuildInit /\ [][BatchNext]_vars

DoCompileUserFileBegins ==
    /\ \E in \in RequestInputs : CompileUserFileBegins(in)
    /\ UNCHANGED <<cacheVars, libVars, lastHash, previewVars>>
DoStageEnds ==
    /\ \E ok \in BOOLEAN : StageEnds(ok)
    /\ UNCHANGED <<cacheVars, libVars, lastHash, previewVars>>

\* a build request: the call, the ends of its waits, and the emcc processes
\* of the library build
RequestNext ==
    \/ DoCompileUserFileBegins
    \/ DoStageEnds
    \/ DoEmccExits

SpecRequest == BuildInit /\ [][RequestNext]_vars

\* every download and every emcc run started returns or fails
RequestFair == WF_vars(DoStageEnds) /\ WF_vars(DoEmccExits)

SpecRequestFair == SpecRequest /\ RequestFair

(***************************************************************************)
(* Claims about the dependency cache (SpecCache).                          *)
(***************************************************************************)
\* isCacheValid(S) in the state a step leads to
validNext(S) == isCacheValidIn(cache', currentSettingsHash', objOnDisk', srcFile', S)

\* a step changes S's content, S's modification time, the existence of the
\* artifact recorded for S, or the active settings fingerprint
triggerChanged(S) ==
    \/ srcFile'[S].exists # srcFile[S].exists
    \/ srcFile'[S].content # srcFile[S].content
    \/ srcFile'[S].mtime # srcFile[S].mtime
    \/ (cache[S].objectPath \in objOnDisk) # (cache[S].objectPath \in objOnDisk')
    \/ currentSettingsHash' # currentSettingsHash

\* valid right after updateCache(S, A), A being an existing file
validAfterUpdate ==
    (last'.op = "updateCache" /\ ~last'.threw /\ last'.obj \in objOnDisk')
        => validNext(last'.src)

\* a change of one of the four makes a valid entry invalid
invalidOnChange ==
    \A S \in Sources :
        (isCacheValid(S) /\ S \in DOMAIN recordedUnder /\ triggerChanged(S))
            => ~validNext(S)

\* C1 as stated: isCacheValid(S) is true right after updateCache(S, A); it
\* becomes false once S's content, S's modification time, the artifact's
\* existence or the active fingerprint changes; and nothing else makes it
\* false (short of a new updateCache for S, which records anew).
C1_AsStated ==
    [][ /\ validAfterUpdate
        /\ invalidOnChange
        /\ \A S \in Sources :
              (isCacheValid(S) /\ ~validNext(S))
                 => \/ triggerChanged(S)
                    \/ (S \in DOMAIN cache' /\ cache'[S] # cache[S])
      ]_cacheVars

\* C1 amended: as C1_AsStated, except that losing the entry also makes
\* isCacheValid(S) false: clear() empties the index even when the artifact
\* file could not be deleted.
C1_ValidityMonotonicity ==
    [][ /\ validAfterUpdate
        /\ invalidOnChange
        /\ \A S \in Sources :
              (isCacheValid(S) /\ ~validNext(S))
                 => \/ triggerChanged(S)
                    \/ (S \in DOMAIN cache' /\ cache'[S] # cache[S])
                    \/ S \notin DOMAIN cache'
      ]_cacheVars

\* a recorded entry whose artifact, content and fingerprint are all as
\* recorded is invalid because the modification time alone differs
C1_Witness ==
    \E S \in DOMAIN cache :
        /\ S \in DOMAIN recordedUnder
        /\ ~isCacheValid(S)
        /\ cache[S].settingsHash = currentSettingsHash
        /\ cache[S].objectPath \in objOnDisk
        /\ srcFile[S].exists
        /\ computeFileHash(srcFile[S].content) = cache[S].sourceHash
        /\ srcFile[S].mtime # cache[S].lastModified

\* C2: every file recorded under a settings fingerprint other than the
\* active one is invalid, whatever the state of its content, time and artifact.
C2_SettingsChangeInvalidates ==
    \A S \in DOMAIN recordedUnder :
        recordedUnder[S] # currentSettingsHash => ~isCacheValid(S)

\* a file recorded under another fingerprint, loaded by the cache in use, with
\* artifact, modification time and content all as recorded
C2_Witness ==
    \E S \in DOMAIN cache :
        /\ S \in DOMAIN recordedUnder
        /\ recordedUnder[S] # currentSettingsHash
        /\ cache[S].objectPath \in objOnDisk
        /\ srcFile[S].exists
        /\ srcFile[S].mtime = cache[S].lastModified
        /\ computeFileHash(srcFile[S].content) = cache[S].sourceHash

C4_PartialReuse ==
    last.op = "compileDependencies" =>
        /\ Range(last.invoked) = Range(last.deps) \ last.validBefore
        /\ (~last.threw /\ Range(last.invoked) \subseteq last.succeeded) =>
              /\ Len(last.result) = Len(last.deps)
              /\ \A d \in Range(last.deps) :
                    /\ d \in DOMAIN cache
                    /\ cache[d].objectPath \in Range(last.result)
                    /\ d \notin last.validBefore => cache[d].objectPath = objFile(d)

\* a build that reuses one dependency and compiles the other
C4_Witness ==
    /\ last.op = "compileDependencies"
    /\ last.validBefore # {}
    /\ last.invoked # <<>>
    /\ Range(last.invoked) \subseteq last.succeeded
    /\ Len(last.result) = 2

\* C5: no error is raised; a file whose compilation produced its object is
\* recorded with that object and the object is in the result; a file whose
\* compilation produced nothing is not recorded and only it is missing from
\* the result.
C5_FailedFilesDropped ==
    last.op = "compileDependencies" =>
        /\ ~last.threw
        /\ \A f \in Range(last.invoked) :
              /\ f \in last.succeeded =>
                    /\ <<f, objFile(f)>> \in Range(last.updated)
                    /\ objFile(f) \in Range(last.result)
              /\ f \notin last.succeeded =>
                    \A i \in 1..Len(last.updated) : last.updated[i][1] # f
        /\ Len(last.result) =
              Len(last.deps) - Cardinality(Range(last.invoked) \ last.succeeded)

(***************************************************************************)
(* Claims about the library build (SpecLib).                               *)
(***************************************************************************)
\* C6 as stated: a buildLibrary call that follows, under the same settings,
\* a call that returned finds the marker, hands nothing to emcc and returns
\* the list the first call returned.
C6_AsStated ==
    (lastLib.op = "buildLibrary" /\ lastLib.repeat) =>
        /\ lastLib.hit
        /\ lastLib.invoked = <<>>
        /\ lastLib.result = lastLib.prev.result

\* C6 amended: such a call finds the marker, hands nothing to emcc and
\* returns, each once and in the order the directory lists them, the object
\* paths the first call returned and the object files that were already in
\* the directory when the first call compiled.
C6_IdempotentReuse ==
    (lastLib.op = "buildLibrary" /\ lastLib.repeat) =>
        /\ lastLib.hit
        /\ lastLib.invoked = <<>>
        /\ Range(lastLib.result) = Range(lastLib.prev.result) \cup lastLib.prev.leftover
        /\ Cardinality(Range(lastLib.result)) = Len(lastLib.result)

\* a second call after a first call that compiled both library sources
C6_Witness ==
    /\ lastLib.op = "buildLibrary"
    /\ lastLib.repeat
    /\ ~lastLib.prev.hit
    /\ Len(lastLib.prev.result) = 2
    /\ lastLib.hit

\* C7: a marked directory holds the object of every library source, and a
\* call in which the download, the header generation or the compilation of
\* a source fails throws and leaves the key without a marker.
C7_MarkerSoundness ==
    /\ \A key \in DOMAIN objDirs :
          markerFile \in objDirs[key] =>
              \A f \in Range(getSourceFiles(key[1])) : objFile(f) \in objDirs[key]
    /\ (/\ lastLib.op = "buildLibrary"
        /\ ~lastLib.hit
        /\ \/ lastLib.stage \in {"ensureVersion", "generateLvConf", "ensureLvDrivers"}
           \/ ~(Range(lastLib.invoked) \subseteq lastLib.succeeded))
          => (lastLib.threw /\ markerFile \notin dirEntries(objDirs, lastLib.key))

\* the settings the claim lists; lvglVersion carries the legacy-driver flag
ListedSettings ==
    {"displayWidth", "displayHeight", "emccOptimization", "lvglMemorySize",
     "wasmMemorySize", "lvglVersion"}

\* C8 as stated: a call whose settings differ from the preceding call's in
\* one of the listed settings has another key, and misses when that key
\* has no directory.
C8_AsStated ==
    (lastLib.op = "buildLibrary" /\ lastLib.changed # {}
        /\ lastLib.changed \subseteq ListedSettings) =>
        /\ lastLib.key # lastLib.prevKey
        /\ lastLib.fresh => ~lastLib.hit

\* C8 amended: so it is for the display width, the display height, the
\* optimization level, the library heap size and the version (with it the
\* legacy-driver flag); a change of the WASM memory size leaves the key as
\* it was.
C8_KeySensitivity ==
    lastLib.op = "buildLibrary" =>
        /\ (lastLib.changed # {}
              /\ lastLib.changed \subseteq ListedSettings \ {"wasmMemorySize"}) =>
                 /\ lastLib.key # lastLib.prevKey
                 /\ lastLib.fresh => ~lastLib.hit
        /\ lastLib.changed = {"wasmMemorySize"} => lastLib.key = lastLib.prevKey

\* after a build that marked its directory the display width is changed, and
\* the next call compiles
C8_Witness ==
    /\ lastLib.op = "buildLibrary"
    /\ lastLib.changed = {"displayWidth"}
    /\ markerFile \in dirEntries(objDirs, lastLib.prevKey)
    /\ ~lastLib.hit
    /\ lastLib.invoked # <<>>

\* C9: a call in which emcc is run and compiles no source throws and leaves
\* the key without a marker; the next call for the key misses, and hands
\* every library source to emcc once it comes to compile.
C9_ZeroObjectsFails ==
    lastLib.op = "buildLibrary" =>
        /\ (lastLib.invoked # <<>> /\ lastLib.succeeded = {}) =>
              (lastLib.threw /\ markerFile \notin dirEntries(objDirs, lastLib.key))
        /\ lastLib.afterZero =>
              /\ ~lastLib.hit
              /\ lastLib.stage \in {"compile", "built"} =>
                    lastLib.invoked = getSourceFiles(lastLib.key[1])

\* the call after a call that compiled no source compiles the library
C9_Witness ==
    /\ lastLib.op = "buildLibrary"
    /\ lastLib.afterZero
    /\ lastLib.stage = "built"

(***************************************************************************)
(* Claims about compileUserFile (SpecMgr).                                 *)
(***************************************************************************)
\* C10: compileUserFile returns, whatever a stage does; when a stage throws,
\* the result has success = false and one diagnostic, of severity error,
\* whose message contains the message of the error thrown.
C10_OrchestratorBoundary ==
    lastResult.op = "compileUserFile" =>
        /\ lastResult.completion.kind = "return"
        /\ lastResult.thrown # NoError =>
              /\ lastResult.completion.value.success = FALSE
              /\ Len(lastResult.completion.value.errors) = 1
              /\ lastResult.completion.value.errors[1].severity = "error"
              /\ \E i \in 1..Len(lastResult.completion.value.errors[1].message) :
                    lastResult.completion.value.errors[1].message[i] = lastResult.thrown.message

\* the library build compiles no source and its error reaches the catch block
C10_Witness ==
    /\ lastResult.op = "compileUserFile"
    /\ lastResult.stage = "buildLibrary"
    /\ lastResult.thrown = Error("Failed to compile LVGL object files")
    /\ lastResult.completion.kind = "return"

(***************************************************************************)
(* Claims about the results of compileUserFile (SpecMgr).                  *)
(***************************************************************************)
\* a diagnostic that names a file, a line >= 1, a column >= 1 and a message
located(diagnostic) ==
    /\ diagnostic.file # ""
    /\ diagnostic.line >= 1
    /\ diagnostic.column >= 1
    /\ diagnostic.message # <<>>

\* C11: every result with success = false that compileUserFile returns
\* carries at least one diagnostic with a file, a line >= 1, a column >= 1 and
\* a message.
C11_FailureCarriesDiagnostic ==
    (/\ lastResult.op = "compileUserFile"
     /\ lastResult.completion.kind = "return"
     /\ ~lastResult.completion.value.success)
        => \E i \in 1..Len(lastResult.completion.value.errors) :
              located(lastResult.completion.value.errors[i])

\* the least whole number of megabytes that holds kb kilobytes
ceilMB(kb) == CHOOSE n \in 0..kb : n * 1024 >= kb /\ (n - 1) * 1024 < kb

\* C12: compileUserFile rejects the request exactly when wasmMemorySize <
\* ceil(lvglMemorySize / 1024) + 32; a rejected request returns the
\* configuration-error result with no stage of the build run, and leaves the
\* library cache, the downloads and the dependency cache as they were.
C12_MemoryGate ==
    [][(settings' = settings /\ lastResult'.op = "compileUserFile") =>
          LET tooSmall == settings.wasmMemorySize < ceilMB(settings.lvglMemorySize) + 32
              result == lastResult'.completion
          IN  /\ tooSmall <=> lastResult'.stage = "memory"
              /\ tooSmall =>
                    /\ result.kind = "return"
                    /\ ~result.value.success
                    /\ Len(result.value.errors) = 1
                    /\ result.value.errors[1].message[1] = "Memory configuration error: "
                    /\ result.value.warnings = <<>>
                    /\ UNCHANGED <<downloaded, lvDrivers, lvConf, objDirs>>
                    /\ UNCHANGED <<metadata, objOnDisk, cache>>]_vars

\* a request rejected one kilobyte over the boundary: 1025 KB need 34 MB, 33 MB are set
C12_Witness ==
    /\ lastResult.op = "compileUserFile"
    /\ lastResult.stage = "memory"
    /\ settings.lvglMemorySize = 1025
    /\ settings.wasmMemorySize = 33

(***************************************************************************)
(* Claims about the link stage and its parser (SpecLink).                  *)
(***************************************************************************)
\* the lines of a text: what lies between one line feed and the next
textLines(text) ==
    LET feeds == {i \in 1..Len(text) : text[i] = "\n"}
        n == Cardinality(feeds) + 1
        ends == CHOOSE f \in [0..n -> {0, Len(text) + 1} \cup feeds] :
                    /\ f[0] = 0 /\ f[n] = Len(text) + 1
                    /\ \A k \in 1..n : f[k - 1] < f[k]
    IN  [k \in 1..n |-> SubSeq(text, ends[k - 1] + 1, ends[k] - 1)]

\* the number a run of decimal digits writes
RECURSIVE decimal(_)
decimal(digits) ==
    IF digits = <<>> THEN 0
    ELSE digitValue(Head(digits)) * (10 ^ (Len(digits) - 1)) + decimal(Tail(digits))

\* a text without the white space around it
stripped(text) ==
    CHOOSE t \in {SubSeq(text, i, j) : i \in 1..(Len(text) + 1), j \in 0..Len(text)} :
        /\ \E before, after \in {SubSeq(text, i, j) : i \in 1..(Len(text) + 1), j \in 0..Len(text)} :
              /\ text = before \o t \o after
              /\ \A i \in 1..Len(before) : isSpace(before[i])
              /\ \A i \in 1..Len(after) : isSpace(after[i])
        /\ t # <<>> => ~isSpace(t[1]) /\ ~isSpace(t[Len(t)])

\* the ways to read a line as <file>:<line>:<column>: <error|warning>: <message>:
\* a file name, three colons with a run of digits between the first and the
\* second and between the second and the third, white space or nothing, the
\* severity word, a colon, and then the message: at least one character up to
\* the end of the line, none of the line a line terminator but white space
\* before the severity
readings(line) ==
    LET colons == {i \in 1..Len(line) : line[i] = ":"}
        words == {i \in 1..Len(line) : line[i] \in {"error", "warning"}}
    IN  {[file |-> SubSeq(line, 1, a - 1),
          line |-> decimal(SubSeq(line, a + 1, b - 1)),
          column |-> decimal(SubSeq(line, b + 1, c - 1)),
          severity |-> line[s],
          message |-> stripped(SubSeq(line, s + 2, Len(line)))] :
            <<a, b, c, s>> \in
               {q \in colons \X colons \X colons \X words :
                   /\ 1 < q[1] /\ q[1] + 1 < q[2] /\ q[2] + 1 < q[3] /\ q[3] < q[4]
                   /\ \A i \in 1..(q[1] - 1) : isDot(line[i])
                   /\ \A i \in (q[1] + 1)..(q[2] - 1) : isDigit(line[i])
                   /\ \A i \in (q[2] + 1)..(q[3] - 1) : isDigit(line[i])
                   /\ \A i \in (q[3] + 1)..(q[4] - 1) : isSpace(line[i])
                   /\ (q[4] + 1) \in colons
                   /\ q[4] + 2 <= Len(line)
                   /\ \A i \in (q[4] + 2)..Len(line) : isDot(line[i])}}

errorDiagnostics(result) ==
    SelectSeq(result.errors \o result.warnings, LAMBDA d : d.severity = "error")

\* C13: a result of the link stage has success = true when it carries no
\* error diagnostic, whatever its warnings, and success = false when it
\* carries at least one.
C13_SuccessIffNoErrors ==
    (/\ lastLink.op = "compileWithObjects" /\ lastLink.returned
     /\ lastLink.completion.kind = "return")
        => (lastLink.completion.value.success
               <=> errorDiagnostics(lastLink.completion.value) = <<>>)

\* C15: when emcc exits with another code than 0 or is killed at the timeout,
\* compileWithObjects does not throw and returns success = false with the
\* diagnostics of both streams: every diagnostic line of stdout and every
\* diagnostic line of stderr is in the result, and nothing else is.
C15_FailureKeepsBothStreams ==
    (/\ lastLink.op = "compileWithObjects" /\ lastLink.returned
     /\ lastLink.run.responseFile /\ lastLink.run.exit # "0")
        => /\ lastLink.completion.kind = "return"
           /\ ~lastLink.completion.value.success
           /\ Range(lastLink.completion.value.errors \o lastLink.completion.value.warnings)
                 = Range(parseCompilerOutput(lastLink.run.stdout))
                      \cup Range(parseCompilerOutput(lastLink.run.stderr))

(***************************************************************************)
(* Claims about the persisted index of the dependency cache.               *)
(***************************************************************************)
\* the source paths that have an entry in the persisted index
persistedKeys(meta) == {meta.entries[i].sourcePath : i \in 1..Len(meta.entries)}

C20_CorruptIndexIsEmpty ==
    (last.op = "new" /\ metadata.state \in {"unreadable", "badEntry"}) =>
        /\ ~last.threw
        /\ cache = EmptyMap
        /\ \A S \in Sources : ~isCacheValid(S)

\* a cache constructed over an index whose array holds, before the element
\* that is null, an entry that would be valid
C20_Witness ==
    /\ last.op = "new"
    /\ metadata.state = "badEntry"
    /\ \E S \in Sources :
          isCacheValidIn(setEntries(EmptyMap, metadata.entries), currentSettingsHash,
                         objOnDisk, srcFile, S)

(***************************************************************************)
(* Claims about clearing the caches (SpecLib).                             *)
(***************************************************************************)
\* C19: the build that follows a clearCache gets no cache hit: buildLibrary
\* does not find a completed build and hands every source of the library to
\* emcc, also when some deletions of the clearCache failed.
C19_NoHitAfterClear ==
    (lastLib.op = "buildLibrary" /\ lastLib.afterClear) =>
        /\ ~lastLib.hit
        /\ lastLib.stage \in {"compile", "built"} =>
              lastLib.invoked = getSourceFiles(lastLib.settings.lvglVersion)

(***************************************************************************)
(* C21                                                                     *)
(***************************************************************************)
\* number of times a string occurs in an array
occurrences(array, str) == Cardinality({i \in 1..Len(array) : array[i] = str})

\* one array is a reordering of the other
permutation(x, y) ==
    /\ Len(x) = Len(y)
    /\ \A str \in Range(x) \cup Range(y) : occurrences(x, str) = occurrences(y, str)

ScalarFields == {"lvglVersion", "optimization", "lvglMemorySize", "wasmMemorySize"}

\* C21: computeSettingsHash gives the same fingerprint for two settings
\* bundles that differ only by a reordering of includePaths or of defines,
\* and different fingerprints for two bundles that differ in a scalar field
\* (lvglVersion, optimization, lvglMemorySize, wasmMemorySize)
C21_FingerprintOrderIndependent ==
    (lastHash.op = "computeSettingsHash" /\ lastHash.returned) =>
        /\ ( /\ \A f \in ScalarFields : lastHash.a[f] = lastHash.b[f]
             /\ permutation(lastHash.a.includePaths, lastHash.b.includePaths)
             /\ permutation(lastHash.a.defines, lastHash.b.defines) )
           => lastHash.hashA = lastHash.hashB
        /\ (\E f \in ScalarFields : lastHash.a[f] # lastHash.b[f])
           => lastHash.hashA # lastHash.hashB

\* two bundles with both arrays in different order have been fingerprinted
C21_Witness ==
    /\ lastHash.op = "computeSettingsHash" /\ lastHash.returned
    /\ \A f \in ScalarFields : lastHash.a[f] = lastHash.b[f]
    /\ lastHash.a.includePaths # lastHash.b.includePaths
    /\ lastHash.a.defines # lastHash.b.defines
    /\ permutation(lastHash.a.includePaths, lastHash.b.includePaths)
    /\ permutation(lastHash.a.defines, lastHash.b.defines)
    /\ lastHash.hashA = lastHash.hashB

(***************************************************************************)
(* C22                                                                     *)
(***************************************************************************)
\* the entry of S in the Map was persisted without a settings fingerprint
legacy(S) == S \in DOMAIN cache /\ cache[S].settingsHash = <<>>

\* the artifact of the entry exists, and the source has the modification
\* time and the content hash the entry records
artifactAndSourceMatch(S) ==
    /\ cache[S].objectPath \in objOnDisk
    /\ srcFile[S].exists
    /\ srcFile[S].mtime = cache[S].lastModified
    /\ computeFileHash(srcFile[S].content) = cache[S].sourceHash

\* C22: a persisted entry without a settings fingerprint skips the
\* settings-match check: whatever the active fingerprint, it is valid
\* whenever its artifact exists and the source's modification time and
\* content hash match, and it is invalid only when one of these fails
C22_LegacyLeniency ==
    \A S \in Sources : legacy(S) => (isCacheValid(S) <=> artifactAndSourceMatch(S))

\* a cache constructed under a fingerprint other than the one before holds
\* a valid entry without fingerprint
C22_Witness ==
    /\ last.op = "new"
    /\ \E S \in Sources : legacy(S) /\ isCacheValid(S)
    /\ \E S \in Sources : S \in DOMAIN cache /\ ~legacy(S)
                          /\ cache[S].settingsHash # currentSettingsHash

(***************************************************************************)
(* Claims about the project configuration (SpecMgr).                       *)
(***************************************************************************)
\* the configuration file of the project names a dependency file or an
\* include directory that does not exist
namesMissingPath(project) ==
    /\ project.found
    /\ \E p \in Range(project.config.dependencies) \cup Range(project.config.includePaths) :
          resolve(configDir, p) \in project.missing

\* the stages of a build request in which a compiler has run or runs
CompileStages ==
    {"buildLibrary", "generateMainFile", "compileWithObjects", "updateDiagnostics", "done"}

\* C23: when the project configuration names a dependency file or an
\* include directory that does not exist, the build request fails and does
\* not go on to compile and link anything
C23_MissingPathIsFatal ==
    (/\ lastResult.op = "compileUserFile"
     /\ lastResult.stage # "memory"
     /\ namesMissingPath(lastResult.project))
        => /\ lastResult.completion.kind = "return"
           /\ ~lastResult.completion.value.success
           /\ lastResult.stage \notin CompileStages

C25_Debounce ==
    burst.events > 0 =>
        /\ burst.invocations <= 1
        /\ burst.elapsed < DebounceDelay => burst.invocations = 0
        /\ burst.elapsed > DebounceDelay => burst.invocations = 1
        /\ burst.invocations = 1 => ~watchers[1].timer.pending

\* a sequence of several events has ended and its one callback has run
C25_Witness ==
    /\ burst.events >= 2
    /\ burst.elapsed > DebounceDelay
    /\ burst.invocations = 1
    /\ burst.uri \in watchers[1].watching


\* C26: after stopPreview() has returned, no callback of a FileWatcher runs,
\* so that no file change starts a recompilation
C26_StopStopsWatcher == lastEvent.op = "callback" => ~lastEvent.afterStop

\* C27: with auto-reload on, a change to the main file or to a dependency of
\* the project starts the debounce timer of a FileWatcher, which leads to a
\* recompilation
C27_ProjectFilesWatched ==
    (/\ lastEvent.op = "change"
     /\ lastEvent.watching
     /\ lastEvent.file \in {ProjectFile.mainFile} \cup Range(ProjectFile.dependencies))
    => lastEvent.armed

\* C28: the loadWasm or showError message of a reload whose recreate created
\* a panel is posted to that panel, unless the user closed it
C28_ResultToOwnPanel ==
    (/\ lastEvent.op = "result"
     /\ lastEvent.isReload
     /\ lastEvent.created # 0
     /\ panels[lastEvent.created].closedBy # "user")
    => lastEvent.target = lastEvent.created

\* the webview panels that are not disposed
livePanels == {p \in DOMAIN panels : panels[p].live}

\* C29: at most one webview panel is live, and it is the panel of the
\* WebviewManager of the PreviewManager
C29_OnePanel ==
    /\ Cardinality(livePanels) <= 1
    /\ \A p \in livePanels : webviewManager # 0 /\ managers[webviewManager].panel = p


\* C30: whenever isCacheValid(S) holds, the object recorded for S is the
\* object emcc writes for S itself, never the object of another source file
C30_CacheHitSound ==
    \A S \in Sources : isCacheValid(S) => cache[S].objectPath = objFile(S)


(***************************************************************************)
(* Build requests under a display width that the user changes back and     *)
(* forth: the settings keep to two configurations, so the changes need no  *)
(* bound.                                                                  *)
(***************************************************************************)
\* the user changes lvglPreview.displayWidth
ChangeDisplayWidth(value) ==
    /\ value # settings.displayWidth
    /\ settings' = [settings EXCEPT !.displayWidth = value]
    /\ lastLib' = [NoLib EXCEPT !.op = "changeSetting"]
    /\ lastResult' = [NoResult EXCEPT !.op = "changeSetting"]
    /\ UNCHANGED <<settingChanges, downloaded, lvDrivers, lvConf, objDirs, lastLink>>

DoChangeDisplayWidth ==
    /\ \E value \in SettingValues.displayWidth : ChangeDisplayWidth(value)
    /\ UNCHANGED <<cacheVars, sessionVars>>

ConfNext ==
    \/ DoCompileUserFile
    \/ DoChangeDisplayWidth

SpecConf == BuildInit /\ [][ConfNext]_vars

\* the display geometry and heap size a key names: the values lv_conf.h is
\* generated from
headerOf(key) == IF key = NoKey THEN NoKey ELSE <<key[3], key[4], key[5]>>

\* the stages of compileUserFile from the invocation of the link stage on
LinkStages == {"compileWithObjects", "updateDiagnostics", "done"}

\* C31: when a build request has invoked the link stage, the lv_conf.h in the
\* source tree of the version was generated from the display geometry and
\* heap size of the key of the library objects that were linked
C31_HeaderMatchesKey ==
    (lastResult.op = "compileUserFile" /\ lastResult.stage \in LinkStages)
    => headerOf(lvConf[settings.lvglVersion])
          = headerOf(cacheKey(settings.lvglVersion, settings))


\* the files of the call whose emcc process is in flight or has written its
\* object
writing == {j \in DOMAIN batch.status : batch.status[j] \in {"running", "done"}}

\* C32: within one compileToObjects call, two distinct source files never
\* have the same output object path, be their emcc processes in flight or
\* finished
C32_DisjointOutputs ==
    \A j, k \in writing :
        batch.sourceFiles[j] # batch.sourceFiles[k]
        => objFile(batch.sourceFiles[j]) # objFile(batch.sourceFiles[k])


\* the calls that wait for compileUserFile to return
compiling == {c \in DOMAIN calls : calls[c].pc = "compiling"}

\* C33: at most one compileUserFile invocation is in progress at any time
C33_OneBuildActive == Cardinality(compiling) <= 1


inFlight == {j \in DOMAIN batch.status : batch.status[j] = "running"}

\* C35: at most batchSize emcc processes of a call are in flight; while a
\* batch runs, every file of the batches before it has finished and no file
\* of a later batch has started; no file is handed to emcc twice, and when
\* the call returns every file has been handed to emcc once
C35_BoundedBatches ==
    /\ Cardinality(inFlight) <= batchSize
    /\ \A j \in inFlight, k \in DOMAIN batch.status :
          /\ k <= batch.i => batch.status[k] \in {"done", "failed"}
          /\ k > batch.i + batchSize => batch.status[k] = "waiting"
    /\ \A j \in DOMAIN batch.starts : batch.starts[j] <= 1
    /\ batch.op = "returned" =>
          \A j \in DOMAIN batch.status :
              batch.starts[j] = 1 /\ batch.status[j] \in {"done", "failed"}

\* a call with more files than one batch has returned, some files compiled
\* and some not
C35_Witness ==
    /\ batch.op = "returned"
    /\ Len(batch.sourceFiles) > batchSize
    /\ \E j \in DOMAIN batch.status : batch.status[j] = "failed"
    /\ \E j \in DOMAIN batch.status : batch.status[j] = "done"
    /\ batch.status[Len(batch.sourceFiles)] = "done"

\* C36: when every download and every emcc run returns or fails, a call of
\* compileUserFile leads to its return with a CompilationResult, a success
\* or a failure
C36_RequestTerminates ==
    (request.pc # "idle")
        ~> (request.pc = "returned" /\ request.result \in {"success", "failure"})

\* a request has returned a failure after every emcc run of the library
\* build failed
C36_Witness ==
    /\ request.pc = "returned"
    /\ request.result = "failure"
    /\ request.thrownAt = "buildLibrary"
    /\ batch.op = "returned"
    /\ batch.objectFiles = <<>>


\* C37: for either major version, no driver source that compileUserFile
\* hands to the link stage is among the files the library stage enumerates,
\* nor among the files it handed to emcc in this request
C37_DriversNotPrecompiled ==
    request.linkCount > 0 =>
        \A f \in Range(request.additionalSourceFiles) :
            /\ f \notin Range(getSourceFiles(request.config.lvglVersion))
            /\ f \notin Range(batch.sourceFiles)

\* a request under LVGL 9 built the library with emcc and handed the SDL
\* drivers of the tree to the link stage
C37_Witness ==
    /\ request.linkCount = 1
    /\ request.config.lvglVersion = "9.2.0"
    /\ batch.op = "returned"
    /\ "src/drivers/sdl/lv_sdl_window.c" \in Range(request.additionalSourceFiles)
    /\ "src/drivers/sdl/lv_sdl_window.c" \in Range(lvglTree("9.2.0"))


\* the diagnostics compileWithObjects parsed from the output of a run
parsedDiagnostics(run) ==
    IF run.exit = "0" THEN parseCompilerOutput(run.stderr)
    ELSE parseCompilerOutput(errorOutput(run))

\* C38: in every result compileWithObjects returns, whether emcc exited with
\* 0 or failed, every entry of errors has severity "error", and every warning
\* parsed from the output is in warnings and not in errors.
C38_SeverityPartition ==
    (/\ lastLink.op = "compileWithObjects" /\ lastLink.returned
     /\ lastLink.completion.kind = "return")
        => LET result == lastLink.completion.value
           IN  /\ \A i \in DOMAIN result.errors : result.errors[i].severity = "error"
               /\ \A d \in Range(parsedDiagnostics(lastLink.run)) :
                      d.severity = "warning" =>
                          /\ d \in Range(result.warnings)
                          /\ d \notin Range(result.errors)


\* the FileWatchers that still watch a file
activeWatchers == {i \in DOMAIN watchers : watchers[i].watching # {}}

\* the FileWatchers whose callback is due for a change of the file
pendingCallbacks(file) ==
    {i \in DOMAIN watchers : watchers[i].timer.pending /\ watchers[i].timer.uri = file}

\* C39: at most one FileWatcher made by the PreviewManager is active at any
\* time, and after any sequence of startPreview, rebuild and stopPreview
\* calls a change of a file arms at most one callback, hence at most one
\* recompilation.
C39_OneWatcher ==
    /\ Cardinality(activeWatchers) <= 1
    /\ \A file \in ChangedFiles : Cardinality(pendingCallbacks(file)) <= 1

====
